---- MODULE Spec2Model ----
(***************************************************************************)
(* Verification model of the Praying web application: the hand-landmark    *)
(* classifier (js/mediapipe.js), the prayer controller (js/prayer.js), the  *)
(* connect controller and stroke recognizer (js/connect.js) and the shared  *)
(* circle dataset with its intersection engine (js/datamanager.js).         *)
(*                                                                         *)
(* Units.  Times are milliseconds (Date.now()).  Normalised landmark       *)
(* coordinates and stored world-floor coordinates are integers counting     *)
(* hundredths (0.25 is 25, a radius of 1.8 is 180), the precision           *)
(* toFixed(2) leaves; the circle that detectCircle hands to addCircleData   *)
(* counts ten-thousandths; screen coordinates are pixels.  Intersection     *)
(* points are integers counting thousandths, the precision toFixed(3)       *)
(* leaves.                                                                  *)
(***************************************************************************)
EXTENDS Integers, Sequences, FiniteSets, TLC

\* ------------------------------------------------------------------------
\* Program constants
\* ------------------------------------------------------------------------
PalmDistanceThreshold == 25
IndexDistanceThreshold == 35
ActivationTime == 300
CooldownTime == 500
FadeTime == 2000
AutoEndDelay == 5000
MinCirclePoints == 10
MinDetectPoints == 3
SpreadFactor == 2
BoundsWidth == 20
BoundsHeight == 20
MinFinalRadius == 1000
MaxFinalRadius == 50000
MergeTolerance == 10
LandmarkCount == 21

\* ------------------------------------------------------------------------
\* Bounds of the model
\* ------------------------------------------------------------------------
StartTime == 1000
MaxPrayers == 2
MaxSessions == 2
MaxTriggers == 1
\* instants, after StartTime, at which frames and user actions may happen
TimeOffsets == {0, 300, 400, 700, 800}
\* synthetic fact streams: false frames before and after the run, longest run,
\* and the frame intervals tried
LeadFrames == 5
MaxRun == 10
\* dataset operations, and circles per imported file
MaxAdds == 1
MaxImports == 2
MaxClears == 1
MaxFileCircles == 3
\* connect sessions, and points of a stroke path
MaxConnectSessions == 2
MaxTimedAdds == 2
MaxTimedImports == 1
MaxDataTicks == 1
MaxPathLength == 12
StreamIntervals == {33, 50, 100, 150, 300}

\* JavaScript null, for fields that otherwise hold an object
NULL == [null |-> TRUE]
\* null, for the material field
NoMaterial == "none"

Max(a, b) == IF a > b THEN a ELSE b
Min(a, b) == IF a < b THEN a ELSE b
Abs(a) == IF a < 0 THEN -a ELSE a

RECURSIVE SqrtSearch(_, _, _)
SqrtSearch(n, lo, hi) ==
  IF lo >= hi THEN lo
  ELSE LET mid == (lo + hi + 1) \div 2
       IN IF mid * mid <= n THEN SqrtSearch(n, mid, hi)
          ELSE SqrtSearch(n, lo, mid - 1)

\* floor of the square root (Math.sqrt, truncated to the model's unit)
ISqrt(n) == IF n <= 0 THEN 0 ELSE SqrtSearch(n, 0, Min(n, 46340))

\* ------------------------------------------------------------------------
\* Hand landmarks and the gesture classifier (js/mediapipe.js)
\* ------------------------------------------------------------------------
\* landmarks[j] of a hand that has no element j (JavaScript undefined)
Undefined == [x |-> 0, y |-> 0, z |-> 0, defined |-> FALSE]

Landmark(landmarks, j) ==
  IF j + 1 \in DOMAIN landmarks THEN landmarks[j + 1] ELSE Undefined

\* vertical offsets of the landmarks below the fingertip row, per pose
PoseOffset(pose, j) ==
  IF pose = "pointing"
  THEN CASE j = 8 -> 0
         [] j = 6 -> 10
         [] j = 5 -> 20
         [] j \in {12, 16, 20} -> 30
         [] OTHER -> 20
  ELSE CASE j \in {8, 12, 16, 20} -> 0
         [] j \in {6, 10, 14, 18} -> 10
         [] OTHER -> 20

\* a detected hand with n landmarks: the index fingertip (landmark 8) at
\* (tipX, tipY), the other landmarks in column cx
MakeHand(n, cx, tipX, tipY, pose) ==
  [i \in 1..n |->
     [x |-> IF i - 1 = 8 THEN tipX ELSE cx,
      y |-> tipY + PoseOffset(pose, i - 1),
      z |-> 0,
      defined |-> TRUE]]

NoHands == << >>
OneOpenHand == << MakeHand(LandmarkCount, 50, 50, 30, "open") >>
TwoHandsApart ==
  << MakeHand(LandmarkCount, 20, 20, 30, "open"),
     MakeHand(LandmarkCount, 80, 80, 30, "open") >>
TwoHandsJoined ==
  << MakeHand(LandmarkCount, 45, 45, 30, "open"),
     MakeHand(LandmarkCount, 55, 55, 30, "open") >>
\* malformed frames: hands with fewer than 21 landmarks
TwoShortHands ==
  << MakeHand(5, 20, 20, 30, "open"), MakeHand(5, 80, 80, 30, "open") >>
OneShortHand == << MakeHand(5, 50, 50, 30, "pointing") >>
PointingAt(tx, ty) == << MakeHand(LandmarkCount, tx, tx, ty, "pointing") >>

Malformed(frame) == \E i \in DOMAIN frame : Len(frame[i]) < LandmarkCount

isPointingGestureNoLengthCheck(landmarks) ==
  LET indexTip == Landmark(landmarks, 8)
      indexPip == Landmark(landmarks, 6)
      indexMcp == Landmark(landmarks, 5)
      middleTip == Landmark(landmarks, 12)
      middlePip == Landmark(landmarks, 10)
      ringTip == Landmark(landmarks, 16)
      pinkyTip == Landmark(landmarks, 20)
  IN /\ indexTip.y < indexPip.y /\ indexPip.y < indexMcp.y
     /\ middleTip.y > middlePip.y
     /\ ringTip.y > Landmark(landmarks, 14).y
     /\ pinkyTip.y > Landmark(landmarks, 18).y

isPointingGesture(landmarks) ==
  IF Len(landmarks) < LandmarkCount THEN FALSE
  ELSE isPointingGestureNoLengthCheck(landmarks)

calculateDistance(point1, point2) ==
  IF ~point1.defined \/ ~point2.defined THEN 0
  ELSE LET dx == point1.x - point2.x
           dy == point1.y - point2.y
           dz == point1.z - point2.z
       IN ISqrt(dx * dx + dy * dy + dz * dz)

processHandResults(multiHandLandmarks) ==
  LET handsDetected == Len(multiHandLandmarks)
      firstHand == multiHandLandmarks[1]
      leftHand == multiHandLandmarks[1]
      rightHand == multiHandLandmarks[2]
      indexDistance == calculateDistance(Landmark(leftHand, 8), Landmark(rightHand, 8))
      palmDistance == calculateDistance(Landmark(leftHand, 9), Landmark(rightHand, 9))
      distances == [indexDistance |-> indexDistance, palmDistance |-> palmDistance]
  IN [handsDetected |-> handsDetected,
      pointingGesture |->
        IF handsDetected > 0
        THEN [isPointing |-> isPointingGesture(firstHand),
              indexTip |-> Landmark(firstHand, 8)]
        ELSE NULL,
      prayerGesture |->
        IF handsDetected = 2
        THEN [isPrayerGesture |-> palmDistance < PalmDistanceThreshold
                                   /\ indexDistance < IndexDistanceThreshold,
              distances |-> distances]
        ELSE NULL]

\* ------------------------------------------------------------------------
\* State
\* ------------------------------------------------------------------------
VARIABLES
  now,           \* Date.now()
  prayerState,   \* js/prayer.js prayerState
  scene,         \* point clouds currently added to the THREE scene
  rafQueue,      \* fade() closures waiting for requestAnimationFrame
  timeouts,      \* pending setTimeout callbacks of triggerPrayer
  nextCloud,     \* identity of the next THREE.Points object created
  session,       \* number of startPrayerMode calls so far
  goddessMesh,   \* js/modelLoader.js goddessMesh: TRUE once the model is loaded
  triggers,      \* number of triggerPrayer calls so far
  lastEvent,     \* the handler that ran last, with its inputs and result
  hist,          \* history of activations, used only by the properties
  stream,        \* the synthetic fact stream being fed, if any
  dataState,     \* js/datamanager.js dataState
  loadPending,   \* the initial loadExistingData() has not settled yet
  saveTimers,    \* delayed saves scheduled by addCircleData, not yet run
  dataEvent,     \* the dataset operation that ran last
  kept,          \* circles addCircleData returned, no explicit clear since
  dataOps,       \* dataset operations performed so far
  connectState,  \* js/connect.js connectState
  stroke,        \* the stroke the hand is drawing, and how far it got
  connectEvent,  \* what the last connect handler did
  connectSessions, \* connect sessions started so far
  geom,          \* a pair of circles and their computed intersection
  appState,      \* js/main.js appState
  handTracking,  \* js/mediapipe.js camera and isActive
  appEvent,      \* the handler of the shell that ran last
  loader,        \* js/modelLoader.js: scene objects, models and pending load
  tasks          \* the shell's dispatched frames and timers not yet run

prayerVars == << now, prayerState, scene, rafQueue, timeouts, nextCloud,
                 session, goddessMesh, triggers, lastEvent, hist >>

dataVars == << dataState, loadPending, saveTimers, dataEvent, kept, dataOps >>

connectVars == << connectState, stroke, connectEvent, connectSessions >>

shellVars == << appState, handTracking, appEvent, loader, tasks >>

vars == << now, prayerState, scene, rafQueue, timeouts, nextCloud,
           session, goddessMesh, triggers, lastEvent, hist, stream,
           dataState, loadPending, saveTimers, dataEvent, kept, dataOps,
           connectState, stroke, connectEvent, connectSessions, geom,
           appState, handTracking, appEvent, loader, tasks >>

\* ------------------------------------------------------------------------
\* Prayer controller (js/prayer.js).  The operators below act on a record w
\* holding prayerState and the browser objects the handlers touch:
\* w.scene, w.rafQueue, w.timeouts, w.nextCloud; w.session tags closures
\* with the session that created them.
\* ------------------------------------------------------------------------
FreshPrayerState ==
  [isActive |-> FALSE,
   isPraying |-> FALSE,
   gestureStartTime |-> 0,
   lastActivationTime |-> 0,
   prayerCount |-> 0,
   goddessPointCloud |-> 0,
   originalVertices |-> FALSE,
   pointCloudMaterial |-> NoMaterial,
   currentDistances |-> NULL,
   gestureDetected |-> FALSE,
   glowEffect |-> FALSE,
   sparkleSystem |-> FALSE,
   modelRotationInterval |-> FALSE,
   pointCloudRotationInterval |-> FALSE,
   goddessMesh |-> FALSE]

World ==
  [prayerState |-> prayerState, scene |-> scene, rafQueue |-> rafQueue,
   timeouts |-> timeouts, nextCloud |-> nextCloud, session |-> session]

stopAllRotations(w) ==
  [w EXCEPT !.prayerState.modelRotationInterval = FALSE,
            !.prayerState.pointCloudRotationInterval = FALSE]

startDualRotations(w) ==
  [w EXCEPT !.prayerState.modelRotationInterval = TRUE,
            !.prayerState.pointCloudRotationInterval = TRUE]

removeAllEffects(w) ==
  [w EXCEPT !.prayerState.glowEffect = FALSE,
            !.prayerState.sparkleSystem = FALSE]

createEnhancedGlowEffect(w) ==
  IF ~w.prayerState.goddessMesh THEN w
  ELSE [w EXCEPT !.prayerState.glowEffect = TRUE]

createSparkleEffect(w) == [w EXCEPT !.prayerState.sparkleSystem = TRUE]

createEnhancedPointCloud(w) ==
  IF ~w.prayerState.originalVertices THEN w
  ELSE [w EXCEPT !.prayerState.goddessPointCloud = w.nextCloud,
                 !.prayerState.pointCloudMaterial = "layered",
                 !.scene = @ \cup {w.nextCloud},
                 !.nextCloud = @ + 1]

transformGoddessToPointCloud(w) ==
  IF ~w.prayerState.originalVertices THEN w
  ELSE createEnhancedPointCloud(startDualRotations(w))

updatePointCloudEffects(w, distances) ==
  IF w.prayerState.goddessPointCloud = 0 THEN w
  ELSE [w EXCEPT !.prayerState.pointCloudMaterial = "layered"]

\* one run of the fade() closure f of fadeOutPointCloud at time t
fade(w, f, t) ==
  IF t - f.startTime < FadeTime /\ w.prayerState.goddessPointCloud # 0
  THEN [w EXCEPT !.prayerState.pointCloudMaterial =
                     IF t > f.startTime THEN "faded" ELSE @,
                 !.rafQueue = Append(@, f)]
  ELSE IF w.prayerState.goddessPointCloud # 0
       THEN [w EXCEPT !.scene = @ \ {w.prayerState.goddessPointCloud},
                      !.prayerState.goddessPointCloud = 0,
                      !.prayerState.pointCloudMaterial = NoMaterial]
       ELSE w

fadeOutPointCloud(w, t) ==
  IF w.prayerState.goddessPointCloud = 0 THEN w
  ELSE fade(w, [startTime |-> t, session |-> w.session,
                cloud |-> w.prayerState.goddessPointCloud], t)

startPrayer(w, t) ==
  IF w.prayerState.isPraying THEN w
  ELSE LET w1 == [w EXCEPT !.prayerState.isPraying = TRUE,
                           !.prayerState.lastActivationTime = t,
                           !.prayerState.prayerCount = @ + 1]
       IN createSparkleEffect(createEnhancedGlowEffect(
            transformGoddessToPointCloud(w1)))

endPrayer(w, t) ==
  IF ~w.prayerState.isPraying THEN w
  ELSE LET w1 == [w EXCEPT !.prayerState.isPraying = FALSE]
       IN removeAllEffects(fadeOutPointCloud(stopAllRotations(w1), t))

\* processGestureDetection without the cooldown test
processGestureDetectionNoCooldown(w, results, t) ==
  LET ps == w.prayerState
  IN IF results.prayerGesture = NULL \/ ~results.prayerGesture.isPrayerGesture
     THEN LET w1 == [w EXCEPT !.prayerState.gestureDetected = FALSE,
                              !.prayerState.gestureStartTime = 0]
          IN IF ps.isPraying THEN endPrayer(w1, t) ELSE w1
     ELSE LET w1 == [w EXCEPT !.prayerState.currentDistances =
                                  results.prayerGesture.distances]
          IN IF ~ps.gestureDetected
             THEN [w1 EXCEPT !.prayerState.gestureDetected = TRUE,
                             !.prayerState.gestureStartTime = t]
             ELSE IF t - ps.gestureStartTime >= ActivationTime /\ ~ps.isPraying
                  THEN startPrayer(w1, t)
                  ELSE w1

\* processGestureDetection with a strict hold test (>  instead of >=)
processGestureDetectionStrictHold(w, results, t) ==
  LET ps == w.prayerState
  IN IF results.prayerGesture = NULL \/ ~results.prayerGesture.isPrayerGesture
     THEN LET w1 == [w EXCEPT !.prayerState.gestureDetected = FALSE,
                              !.prayerState.gestureStartTime = 0]
          IN IF ps.isPraying THEN endPrayer(w1, t) ELSE w1
     ELSE LET w1 == [w EXCEPT !.prayerState.currentDistances =
                                  results.prayerGesture.distances]
          IN IF ~ps.gestureDetected
             THEN [w1 EXCEPT !.prayerState.gestureDetected = TRUE,
                             !.prayerState.gestureStartTime = t]
             ELSE IF /\ t - ps.gestureStartTime > ActivationTime
                     /\ ~ps.isPraying
                     /\ t - ps.lastActivationTime >= CooldownTime
                  THEN startPrayer(w1, t)
                  ELSE w1

\* processGestureDetection that keeps praying through a false frame
processGestureDetectionDebounced(w, results, t) ==
  LET ps == w.prayerState
  IN IF results.prayerGesture = NULL \/ ~results.prayerGesture.isPrayerGesture
     THEN [w EXCEPT !.prayerState.gestureDetected = FALSE,
                    !.prayerState.gestureStartTime = 0]
     ELSE LET w1 == [w EXCEPT !.prayerState.currentDistances =
                                  results.prayerGesture.distances]
          IN IF ~ps.gestureDetected
             THEN [w1 EXCEPT !.prayerState.gestureDetected = TRUE,
                             !.prayerState.gestureStartTime = t]
             ELSE IF /\ t - ps.gestureStartTime >= ActivationTime
                     /\ ~ps.isPraying
                     /\ t - ps.lastActivationTime >= CooldownTime
                  THEN startPrayer(w1, t)
                  ELSE w1

processGestureDetection(w, results, t) ==
  LET currentTime == t
      ps == w.prayerState
  IN IF results.prayerGesture = NULL \/ ~results.prayerGesture.isPrayerGesture
     THEN LET w1 == [w EXCEPT !.prayerState.gestureDetected = FALSE,
                              !.prayerState.gestureStartTime = 0]
          IN IF ps.isPraying THEN endPrayer(w1, t) ELSE w1
     ELSE LET w1 == [w EXCEPT !.prayerState.currentDistances =
                                  results.prayerGesture.distances]
          IN IF ~ps.gestureDetected
             THEN [w1 EXCEPT !.prayerState.gestureDetected = TRUE,
                             !.prayerState.gestureStartTime = currentTime]
             ELSE LET gestureHoldTime == currentTime - ps.gestureStartTime
                      timeSinceLastActivation == currentTime - ps.lastActivationTime
                  IN IF gestureHoldTime >= ActivationTime
                     THEN IF ~ps.isPraying /\ timeSinceLastActivation >= CooldownTime
                          THEN startPrayer(w1, t)
                          ELSE w1
                     ELSE w1

processPrayerHandResults(w, results, t) ==
  IF ~w.prayerState.isActive THEN w
  ELSE LET w1 == processGestureDetection(w, results, t)
       IN IF /\ w1.prayerState.isPraying
             /\ results.prayerGesture # NULL
          THEN updatePointCloudEffects(w1, results.prayerGesture.distances)
          ELSE w1

handlePrayerModeHandResults(w, results, t) ==
  IF w.prayerState.isActive THEN processPrayerHandResults(w, results, t) ELSE w

triggerPrayer(w, t) ==
  IF w.prayerState.isActive /\ ~w.prayerState.isPraying
  THEN LET w1 == [w EXCEPT !.prayerState.gestureDetected = TRUE,
                           !.prayerState.gestureStartTime = t - ActivationTime,
                           !.prayerState.currentDistances =
                              [indexDistance |-> 10, palmDistance |-> 8]]
           w2 == startPrayer(w1, t)
       IN [w2 EXCEPT !.timeouts =
              Append(@, [due |-> t + AutoEndDelay, session |-> w.session])]
  ELSE w

\* the callback triggerPrayer hands to setTimeout
autoEndCallback(w, t) ==
  IF w.prayerState.isPraying THEN endPrayer(w, t) ELSE w

extractGoddessVertices(w) ==
  IF ~w.prayerState.goddessMesh THEN w
  ELSE [w EXCEPT !.prayerState.originalVertices = TRUE]

\* a reset that cleans the scene but keeps the counters of the session
resetPrayerStateKeepsCounters(w) ==
  LET w1 == stopAllRotations(w)
      w2 == IF w1.prayerState.goddessPointCloud # 0
            THEN [w1 EXCEPT !.scene = @ \ {w1.prayerState.goddessPointCloud}]
            ELSE w1
      w3 == removeAllEffects(w2)
  IN [w3 EXCEPT !.prayerState =
        [FreshPrayerState EXCEPT
           !.lastActivationTime = w.prayerState.lastActivationTime,
           !.prayerCount = w.prayerState.prayerCount]]

resetPrayerState(w) ==
  LET w1 == stopAllRotations(w)
      w2 == IF w1.prayerState.goddessPointCloud # 0
            THEN [w1 EXCEPT !.scene = @ \ {w1.prayerState.goddessPointCloud},
                            !.prayerState.goddessPointCloud = 0,
                            !.prayerState.pointCloudMaterial = NoMaterial]
            ELSE w1
      w3 == removeAllEffects(w2)
  IN [w3 EXCEPT !.prayerState = FreshPrayerState]

startPrayerMode(w, mesh) ==
  LET w1 == [w EXCEPT !.prayerState.isActive = TRUE,
                      !.prayerState.goddessMesh = mesh,
                      !.session = @ + 1]
  IN IF mesh THEN extractGoddessVertices(w1) ELSE w1

\* stopPrayerMode that resets without ending the prayer first
stopPrayerModeStateNoEnd(w, t) ==
  resetPrayerState([w EXCEPT !.prayerState.isActive = FALSE])

stopPrayerModeState(w, t) ==
  LET w1 == [w EXCEPT !.prayerState.isActive = FALSE]
      w2 == IF w1.prayerState.isPraying THEN endPrayer(w1, t) ELSE w1
  IN resetPrayerState(w2)

\* the results of a stopPrayerMode that reads the counter after the reset
stopPrayerModeResultsAfterReset(w, t) ==
  [totalPrayers |-> stopPrayerModeState(w, t).prayerState.prayerCount,
   sessionActive |-> FALSE]

\* the results object stopPrayerMode returns
stopPrayerModeResults(w, t) ==
  LET w1 == [w EXCEPT !.prayerState.isActive = FALSE]
      w2 == IF w1.prayerState.isPraying THEN endPrayer(w1, t) ELSE w1
  IN [totalPrayers |-> w2.prayerState.prayerCount, sessionActive |-> FALSE]

updatePrayer(w) ==
  IF /\ w.prayerState.goddessPointCloud # 0
     /\ w.prayerState.isPraying
     /\ w.prayerState.currentDistances # NULL
  THEN updatePointCloudEffects(w, w.prayerState.currentDistances)
  ELSE w

\* ------------------------------------------------------------------------
\* Shared circle dataset (js/datamanager.js).  The operators act on a record
\* d == [dataState, loadPending, saveTimers]: the module's dataState, whether
\* the initial load started by initDataManager is still in flight, and the
\* number of delayed saves addCircleData has scheduled and that have not run.
\* dataState.users lists the owners in the insertion order of
\* circlesData.users.  Of a circle the model keeps id, x, z, radius, userId
\* and source; an id `${prefix}_${n}` is [prefix, n], a merged id carries
\* the random suffix too.  Timestamps, colours and the dataset's
\* lastUpdated / totalCircles metadata are left out.
\* ------------------------------------------------------------------------
\* String.prototype.toLowerCase on the user ids of the model
toLowerCase(userId) ==
  CASE userId = "Alice" -> "alice"
    [] userId = "Bob" -> "bob"
    [] userId = "Charlie" -> "charlie"
    [] userId = "Dana" -> "dana"
    [] userId = "User1" -> "user1"
    [] OTHER -> userId

\* x.toFixed(2), for x counted in ten-thousandths; the result counts
\* hundredths.  Ties (…50) are not among the inputs of this model.
toFixed2(x) ==
  IF x >= 0 THEN (x + 50) \div 100 ELSE -((-x + 50) \div 100)

\* n / q rounded to the nearest integer, q > 0
RoundDiv(n, q) ==
  IF n >= 0 THEN (2 * n + q) \div (2 * q) ELSE -((2 * (-n) + q) \div (2 * q))

FreshDataState ==
  [currentUser |-> "User1",
   users |-> << >>,
   loadedFromFile |-> FALSE,
   autoSaveInterval |-> FALSE,
   hasUnsavedChanges |-> FALSE]

\* index of circlesData.users[userId] in insertion order, 0 if absent
UserIndex(users, userId) ==
  IF \E i \in DOMAIN users : users[i].userId = userId
  THEN CHOOSE i \in DOMAIN users : users[i].userId = userId
  ELSE 0

UserCircles(users, userId) ==
  IF UserIndex(users, userId) = 0 THEN << >>
  ELSE users[UserIndex(users, userId)].circles

\* Object.keys(users): the keys of a plain object come out with the
\* canonical array indices ("7", "42") first, in ascending numeric order,
\* and the other strings after them in insertion order.  KeyNumber is the
\* number a user id is the canonical form of, -1 for the other ids.
KeyNumber(userId) ==
  CASE userId = "7" -> 7
    [] userId = "42" -> 42
    [] OTHER -> -1

KeyBefore(users, i, j) ==
  LET ni == KeyNumber(users[i].userId)
      nj == KeyNumber(users[j].userId)
  IN IF ni >= 0 /\ nj >= 0 THEN ni < nj
     ELSE IF ni >= 0 \/ nj >= 0 THEN ni >= 0
     ELSE i < j

\* the users of the object in the order Object.keys enumerates them
ObjectKeys(users) ==
  [p \in DOMAIN users |->
     users[CHOOSE i \in DOMAIN users :
             Cardinality({j \in DOMAIN users : KeyBefore(users, j, i)}) = p - 1]]

setupAutoSave(d) == [d EXCEPT !.dataState.autoSaveInterval = TRUE]

\* initDataManager: loadExistingData() is started and not awaited
initDataManager(d) == setupAutoSave([d EXCEPT !.loadPending = TRUE])

RECURSIVE convertFrom(_, _, _)
convertFrom(circles, index, users) ==
  IF index > Len(circles) THEN users
  ELSE LET circle == circles[index]
           userId == circle.user
           users1 == IF UserIndex(users, userId) = 0
                     THEN Append(users, [userId |-> userId, circles |-> << >>])
                     ELSE users
           i == UserIndex(users1, userId)
           stored == [id |-> [prefix |-> toLowerCase(userId), n |-> index,
                              merged |-> FALSE, rand |-> ""],
                      x |-> circle.x, z |-> circle.z, radius |-> circle.radius,
                      userId |-> userId, source |-> "JSON file"]
       IN convertFrom(circles, index + 1,
                      [users1 EXCEPT ![i].circles = Append(@, stored)])

\* the users of the internal format; ids count the file's circles from 1
convertSimpleJsonToInternalFormat(simpleJson) ==
  convertFrom(simpleJson.circles, 1, << >>)

SampleCircle(userId, n, x, z, radius) ==
  [id |-> [prefix |-> toLowerCase(userId), n |-> n, merged |-> FALSE, rand |-> ""],
   x |-> x, z |-> z, radius |-> radius,
   userId |-> userId, source |-> "Built-in sample"]

createSampleCircleData ==
  << [userId |-> "Alice",
      circles |-> << SampleCircle("Alice", 1, 200, 150, 180),
                     SampleCircle("Alice", 2, -100, -200, 150) >>],
     [userId |-> "Bob",
      circles |-> << SampleCircle("Bob", 1, 100, 200, 120),
                     SampleCircle("Bob", 2, -250, 50, 160) >>],
     [userId |-> "Charlie",
      circles |-> << SampleCircle("Charlie", 1, 0, 0, 200) >>] >>

\* loadExistingData without the catch block's fallback: a body without a
\* circles array is taken as an empty file
loadExistingDataNoFallback(d, response) ==
  IF response.ok
  THEN [d EXCEPT !.dataState.users =
                     convertSimpleJsonToInternalFormat(response.json),
                 !.dataState.loadedFromFile = TRUE,
                 !.loadPending = FALSE]
  ELSE [d EXCEPT !.dataState.users = createSampleCircleData,
                 !.dataState.loadedFromFile = FALSE,
                 !.loadPending = FALSE]

\* The continuation of loadExistingData once fetch has settled.  response.ok
\* false, a rejected fetch and a body without a circles array all end in the
\* catch block.
loadExistingData(d, response) ==
  IF response.ok /\ response.json.hasCircles
  THEN [d EXCEPT !.dataState.users =
                     convertSimpleJsonToInternalFormat(response.json),
                 !.dataState.loadedFromFile = TRUE,
                 !.loadPending = FALSE]
  ELSE [d EXCEPT !.dataState.users = createSampleCircleData,
                 !.dataState.loadedFromFile = FALSE,
                 !.loadPending = FALSE]

\* addCircleData that also files the circle under the first owner of the
\* dataset
addCircleDataFirstOwner(d, circleData, t) ==
  LET userId == d.dataState.currentUser
      users == d.dataState.users
      users1 == IF UserIndex(users, userId) = 0
                THEN Append(users, [userId |-> userId, circles |-> << >>])
                ELSE users
      circle == [id |-> [prefix |-> toLowerCase(userId), n |-> t,
                         merged |-> FALSE, rand |-> ""],
                 x |-> toFixed2(circleData.x),
                 z |-> toFixed2(circleData.z),
                 radius |-> toFixed2(circleData.radius),
                 userId |-> userId, source |-> "User drawn"]
  IN [d EXCEPT !.dataState.users =
                   [users1 EXCEPT ![1].circles = Append(@, circle),
                                  ![UserIndex(users1, userId)].circles =
                                      Append(@, circle)],
               !.dataState.hasUnsavedChanges = TRUE,
               !.saveTimers = @ + 1]

\* addCircleData; the circle it returns is the last one of the current user.
\* circleData counts ten-thousandths, t is Date.now()
addCircleData(d, circleData, t) ==
  LET userId == d.dataState.currentUser
      users == d.dataState.users
      users1 == IF UserIndex(users, userId) = 0
                THEN Append(users, [userId |-> userId, circles |-> << >>])
                ELSE users
      circle == [id |-> [prefix |-> toLowerCase(userId), n |-> t,
                         merged |-> FALSE, rand |-> ""],
                 x |-> toFixed2(circleData.x),
                 z |-> toFixed2(circleData.z),
                 radius |-> toFixed2(circleData.radius),
                 userId |-> userId, source |-> "User drawn"]
  IN [d EXCEPT !.dataState.users =
                   [users1 EXCEPT ![UserIndex(users1, userId)].circles =
                                      Append(@, circle)],
               !.dataState.hasUnsavedChanges = TRUE,
               !.saveTimers = @ + 1]

addedCircle(d) ==
  LET circles == UserCircles(d.dataState.users, d.dataState.currentUser)
  IN circles[Len(circles)]

RECURSIVE othersFrom(_, _, _)
othersFrom(users, currentUser, i) ==
  IF i > Len(users) THEN << >>
  ELSE (IF users[i].userId # currentUser
        THEN [k \in DOMAIN users[i].circles |->
                [users[i].circles[k] EXCEPT !.userId = users[i].userId]]
        ELSE << >>)
       \o othersFrom(users, currentUser, i + 1)

getAllOtherUsersCircles(d) ==
  othersFrom(ObjectKeys(d.dataState.users), d.dataState.currentUser, 1)

GCD(a, b) ==
  LET RECURSIVE Euclid(_, _)
      Euclid(m, n) == IF n = 0 THEN m ELSE Euclid(n, m % n)
  IN Euclid(Abs(a), Abs(b))

\* sqrt(n) times SqrtScale(n): the scale keeps n * scale^2 within 32 bits
SqrtScale(n) ==
  IF n <= 20 THEN 10000
  ELSE IF n <= 2000 THEN 1000
  ELSE IF n <= 200000 THEN 100
  ELSE IF n <= 20000000 THEN 10
  ELSE 1

\* a * b is a 32-bit integer
Fits(a, b) == a = 0 \/ b = 0 \/ Abs(a) <= 2147483647 \div Abs(b)

\* r + x as a carry and a remainder modulo q, for 0 <= r, x < q
AddMod(r, x, q) ==
  IF r >= q - x THEN [carry |-> 1, r |-> r - (q - x)] ELSE [carry |-> 0, r |-> r + x]

\* one binary digit of MulDivMod: from the quotient and remainder of
\* a * (b \div 2) to those of a * b
MulDivModStep(half, a, b, q) ==
  LET twice == AddMod(half.r, half.r, q)
      odd == IF b % 2 = 1 THEN AddMod(twice.r, a % q, q)
             ELSE [carry |-> 0, r |-> twice.r]
  IN [q |-> 2 * half.q + twice.carry + odd.carry
              + (IF b % 2 = 1 THEN a \div q ELSE 0),
      r |-> odd.r]

\* quotient and remainder of a * b by q for a, b >= 0 and q > 0, through the
\* binary digits of b: no intermediate value leaves 32 bits
RECURSIVE MulDivMod(_, _, _)
MulDivMod(a, b, q) ==
  IF b = 0 THEN [q |-> 0, r |-> 0]
  ELSE CHOOSE m \in {MulDivModStep(half, a, b, q) :
                       half \in {MulDivMod(a, b \div 2, q)}} : TRUE

\* RoundDiv(a * b, q) for products beyond 32 bits
RoundMulDiv(a, b, q) ==
  IF Fits(a, b) /\ Fits(2, a * b) /\ Fits(2, q) /\ Abs(2 * a * b) <= 2147483647 - q
  THEN RoundDiv(a * b, q)
  ELSE CHOOSE n \in {IF (a >= 0) = (b >= 0)
                      THEN m.q + (IF m.r >= q - m.r THEN 1 ELSE 0)
                      ELSE -(m.q + (IF m.r >= q - m.r THEN 1 ELSE 0)) :
                      m \in {MulDivMod(Abs(a), Abs(b), q)}} : TRUE

RECURSIVE SqrtProdSearch(_, _, _, _)
SqrtProdSearch(big, small, lo, hi) ==
  IF lo >= hi THEN lo
  ELSE LET mid == lo + (hi - lo + 1) \div 2
       IN IF \E m \in {MulDivMod(mid, mid, big)} :
               m.q < small \/ (m.q = small /\ m.r = 0)
          THEN SqrtProdSearch(big, small, mid, hi)
          ELSE SqrtProdSearch(big, small, lo, mid - 1)

\* floor of sqrt(a * b) for a product beyond 32 bits
ISqrtProd(a, b) ==
  IF a <= 0 \/ b <= 0 THEN 0
  ELSE SqrtProdSearch(Max(a, b), Min(a, b), 0, Max(a, b))

\* the largest scale up to SqrtScale that keeps 2 * e2 * scale within 32 bits
RECURSIVE ScaleWithin(_, _)
ScaleWithin(scale, e2) ==
  IF scale = 1 \/ e2 <= 1073741823 \div scale THEN scale
  ELSE ScaleWithin(scale \div 10, e2)

\* The two points of calculateCircleIntersection, for circles that have
\* passed its tests (their centres differ).  The circles count hundredths,
\* the points thousandths (toFixed(3)).  With K == r1^2 - r2^2 + d^2 the
\* code's a is K / 2d and its h is
\* sqrt((r1+r2)^2 - d^2) * sqrt(d^2 - (r1-r2)^2) / 2d.  Lengths are divided
\* by their common divisor g first, and each of the two terms of a
\* coordinate is rounded to the thousandth: a coordinate is within one
\* thousandth of the code's.  Products beyond 32 bits are divided digit by
\* digit (RoundMulDiv, ISqrtProd).
pointsFromRoot(circle1, g, sx, sz, e2, K, R, S) ==
  LET ax == RoundMulDiv(10 * g * sx, K, 2 * e2)
      az == RoundMulDiv(10 * g * sz, K, 2 * e2)
      hx == RoundMulDiv(10 * g * (-sz), R, 2 * e2 * S)
      hz == RoundMulDiv(10 * g * sx, R, 2 * e2 * S)
  IN << [x |-> 10 * circle1.x + ax + hx, z |-> 10 * circle1.z + az + hz],
        [x |-> 10 * circle1.x + ax - hx, z |-> 10 * circle1.z + az - hz] >>

pointsFromDivisor(circle1, circle2, g) ==
  LET sx == (circle2.x - circle1.x) \div g
      sz == (circle2.z - circle1.z) \div g
      s1 == circle1.radius \div g
      s2 == circle2.radius \div g
      e2 == sx * sx + sz * sz
      K == s1 * s1 - s2 * s2 + e2
      A == (s1 + s2) * (s1 + s2) - e2
      B == e2 - (s1 - s2) * (s1 - s2)
      S == IF Fits(A, B) THEN ScaleWithin(SqrtScale(A * B), e2) ELSE 1
  IN CHOOSE points \in
       {pointsFromRoot(circle1, g, sx, sz, e2, K, R, S) :
          R \in {IF Fits(A, B) THEN ISqrt(A * B * S * S) ELSE ISqrtProd(A, B)}} :
       TRUE

pointsOnBothCircles(circle1, circle2) ==
  CHOOSE points \in
    {pointsFromDivisor(circle1, circle2, g) :
       g \in {GCD(GCD(circle2.x - circle1.x, circle2.z - circle1.z),
                   GCD(circle1.radius, circle2.radius))}} : TRUE

\* A point whose coordinates are NaN: Math.sqrt of a negative radicand is
\* NaN, and so is every sum with it and parseFloat of its toFixed(3).
NaNPoint == [x |-> 0, z |-> 0, nan |-> TRUE]

\* The pairs of the model's circles for which r1 * r1 - a * a, evaluated in
\* double precision as the code evaluates it, is below zero: the circles
\* (0, 0, 0.1) and (0.2, 0, 0.1) touch, and 0.1 and 0.2 are not exact in
\* binary (the value is -1.73e-18).
NegativeRadicand(circle1, circle2) ==
  << circle1.x, circle1.z, circle1.radius,
     circle2.x, circle2.z, circle2.radius >>
    \in { << 0, 0, 10, 20, 0, 10 >>, << 20, 0, 10, 0, 0, 10 >> }

\* calculateCircleIntersection that treats touching circles as apart
calculateCircleIntersectionStrict(circle1, circle2) ==
  LET dx == circle2.x - circle1.x
      dz == circle2.z - circle1.z
      r1 == circle1.radius
      r2 == circle2.radius
      d2 == dx * dx + dz * dz
  IN IF d2 >= (r1 + r2) * (r1 + r2) THEN << >>
     ELSE IF d2 <= (r1 - r2) * (r1 - r2) THEN << >>
     ELSE pointsOnBothCircles(circle1, circle2)

\* calculateCircleIntersection.  distance is compared through its square,
\* which is exact.
calculateCircleIntersection(circle1, circle2) ==
  LET dx == circle2.x - circle1.x
      dz == circle2.z - circle1.z
      r1 == circle1.radius
      r2 == circle2.radius
      d2 == dx * dx + dz * dz
  IN IF d2 > (r1 + r2) * (r1 + r2) THEN << >>
     ELSE IF d2 < (r1 - r2) * (r1 - r2) THEN << >>
     ELSE IF d2 = 0 /\ r1 = r2 THEN << >>
     ELSE IF NegativeRadicand(circle1, circle2) THEN << NaNPoint, NaNPoint >>
     ELSE pointsOnBothCircles(circle1, circle2)

RECURSIVE intersectionsFrom(_, _, _, _)
intersectionsFrom(newCircle, otherCircles, currentUser, i) ==
  IF i > Len(otherCircles) THEN << >>
  ELSE LET existingCircle == otherCircles[i]
           intersectionPoints == calculateCircleIntersection(newCircle, existingCircle)
       IN (IF Len(intersectionPoints) > 0
           THEN << [circle1 |-> newCircle, circle2 |-> existingCircle,
                    points |-> intersectionPoints,
                    users |-> << currentUser, existingCircle.userId >>] >>
           ELSE << >>)
          \o intersectionsFrom(newCircle, otherCircles, currentUser, i + 1)

\* findCircleIntersections that tests the circles of every user
findCircleIntersectionsAllUsers(d, newCircle) ==
  intersectionsFrom(newCircle, othersFrom(ObjectKeys(d.dataState.users), "", 1),
                    d.dataState.currentUser, 1)

findCircleIntersections(d, newCircle) ==
  intersectionsFrom(newCircle, getAllOtherUsersCircles(d),
                    d.dataState.currentUser, 1)

\* saveDataToFile that clears the dirty flag whether or not setItem threw
saveDataToFileAlwaysClears(d, ok) ==
  [d EXCEPT !.dataState.hasUnsavedChanges = FALSE]

\* saveDataToFile; ok is whether localStorage.setItem returned normally
saveDataToFile(d, ok) ==
  IF ok THEN [d EXCEPT !.dataState.hasUnsavedChanges = FALSE] ELSE d

\* what saveDataToFile returns: the JSON string, or null from the catch block
saveDataToFileResult(d, ok) == IF ok THEN [null |-> FALSE] ELSE NULL

\* the autosave interval's callback
autoSaveTick(d, ok) ==
  IF d.dataState.hasUnsavedChanges /\ Len(d.dataState.users) > 0
  THEN saveDataToFile(d, ok)
  ELSE d

\* a duplicate test by circle id instead of by position and radius
isDuplicateById(existingCircles, newCircle) ==
  \E i \in DOMAIN existingCircles : existingCircles[i].id = newCircle.id

isDuplicate(existingCircles, newCircle) ==
  \E i \in DOMAIN existingCircles :
    /\ Abs(existingCircles[i].x - newCircle.x) < MergeTolerance
    /\ Abs(existingCircles[i].z - newCircle.z) < MergeTolerance
    /\ Abs(existingCircles[i].radius - newCircle.radius) < MergeTolerance

\* the forEach over newCircles of an existing user, from the k-th on;
\* existingCircles is the live array, which grows as circles are pushed
RECURSIVE mergeCircles(_, _, _, _, _, _)
mergeCircles(existingCircles, newCircles, k, userId, t, rands) ==
  IF k > Len(newCircles) THEN existingCircles
  ELSE LET newCircle == newCircles[k]
           pushed == [newCircle EXCEPT
                        !.id = [prefix |-> toLowerCase(userId), n |-> t,
                                merged |-> TRUE, rand |-> rands[newCircle.id.n]]]
       IN mergeCircles(IF isDuplicate(existingCircles, newCircle)
                       THEN existingCircles
                       ELSE Append(existingCircles, pushed),
                       newCircles, k + 1, userId, t, rands)

\* mergeCircles against the circles stored when the merge began
RECURSIVE mergeCirclesSnapshot(_, _, _, _, _, _, _)
mergeCirclesSnapshot(snapshot, existingCircles, newCircles, k, userId, t, rands) ==
  IF k > Len(newCircles) THEN existingCircles
  ELSE LET newCircle == newCircles[k]
           pushed == [newCircle EXCEPT
                        !.id = [prefix |-> toLowerCase(userId), n |-> t,
                                merged |-> TRUE, rand |-> rands[newCircle.id.n]]]
       IN mergeCirclesSnapshot(snapshot,
                       IF isDuplicate(snapshot, newCircle)
                       THEN existingCircles
                       ELSE Append(existingCircles, pushed),
                       newCircles, k + 1, userId, t, rands)

RECURSIVE mergeUsersSnapshot(_, _, _, _, _)
mergeUsersSnapshot(users, newUsers, j, t, rands) ==
  IF j > Len(newUsers) THEN users
  ELSE LET userId == newUsers[j].userId
           i == UserIndex(users, userId)
       IN mergeUsersSnapshot(
            IF i = 0 THEN Append(users, newUsers[j])
            ELSE [users EXCEPT ![i].circles =
                    mergeCirclesSnapshot(users[i].circles, users[i].circles,
                                         newUsers[j].circles, 1, userId, t, rands)],
            newUsers, j + 1, t, rands)

\* mergeCircleData that tests duplicates against a copy of the stored circles
mergeCircleDataSnapshot(d, newData, t, rands) ==
  [d EXCEPT !.dataState.users =
               mergeUsersSnapshot(@, ObjectKeys(newData), 1, t, rands)]

RECURSIVE mergeUsers(_, _, _, _, _)
mergeUsers(users, newUsers, j, t, rands) ==
  IF j > Len(newUsers) THEN users
  ELSE LET userId == newUsers[j].userId
           i == UserIndex(users, userId)
       IN mergeUsers(
            IF i = 0 THEN Append(users, newUsers[j])
            ELSE [users EXCEPT ![i].circles =
                    mergeCircles(@, newUsers[j].circles, 1, userId, t, rands)],
            newUsers, j + 1, t, rands)

\* mergeCircleData; newData is the users of the converted file, rands[n] the
\* Math.random() suffix drawn for the file's n-th circle
mergeCircleData(d, newData, t, rands) ==
  [d EXCEPT !.dataState.users = mergeUsers(@, ObjectKeys(newData), 1, t, rands)]

\* reader.onload of loadDataFromFile.  A file that is not JSON, or has no
\* circles array, makes the try block throw: the promise rejects and
\* nothing is changed.
loadDataFromFile(d, file, shouldReplace, t, rands) ==
  IF ~file.parses \/ ~file.json.hasCircles THEN d
  ELSE LET convertedData == convertSimpleJsonToInternalFormat(file.json)
           d1 == IF shouldReplace
                 THEN [d EXCEPT !.dataState.users = convertedData]
                 ELSE mergeCircleData(d, convertedData, t, rands)
       IN [d1 EXCEPT !.dataState.loadedFromFile = TRUE,
                     !.dataState.hasUnsavedChanges = TRUE]

setCurrentUser(d, userId) == [d EXCEPT !.dataState.currentUser = userId]

clearAllData(d, confirm) ==
  IF confirm
  THEN [d EXCEPT !.dataState.users = << >>,
                 !.dataState.hasUnsavedChanges = TRUE]
  ELSE d

clearUserData(d, userId) ==
  LET users == d.dataState.users
      i == UserIndex(users, userId)
  IN IF i = 0 THEN d
     ELSE [d EXCEPT !.dataState.users =
                        [j \in 1..(Len(users) - 1) |->
                           IF j < i THEN users[j] ELSE users[j + 1]],
                    !.dataState.hasUnsavedChanges = TRUE]

\* ------------------------------------------------------------------------
\* Connect controller and stroke recognizer (js/connect.js), with
\* screenTo3D (js/scene.js).  The operators act on a record
\* c == [connectState, d], d the dataset record above.  Path points are
\* screen pixels; screenTo3D takes a screen position counted in half pixels
\* (the centre of a bounding box falls on one) and returns world
\* coordinates counted in ten-thousandths.
\* ------------------------------------------------------------------------
\* window.innerWidth, window.innerHeight
Window == [innerWidth |-> 1000, innerHeight |-> 1000]

FreshConnectState ==
  [isActive |-> FALSE,
   currentUserId |-> "User1",
   isDrawing |-> FALSE,
   currentPath |-> << >>,
   activeDrawingLines |-> 0,
   userCircles |-> << >>,
   circlesInScene |-> 0,
   stars |-> 0,
   cursor |-> [isActive |-> FALSE, element |-> FALSE, isVisible |-> FALSE,
               isDrawing |-> FALSE, targetPosition |-> [x |-> 0, y |-> 0]]]

screenTo3D(screenX2, screenY2, screenWidth, screenHeight) ==
  [x |-> RoundDiv(screenX2 * BoundsWidth * 10000, 2 * screenWidth)
           - BoundsWidth * 5000,
   z |-> RoundDiv(screenY2 * BoundsHeight * 10000, 2 * screenHeight)
           - BoundsHeight * 5000]

\* initConnectMode: initDataManager and the cursor element
initConnectMode(c) ==
  [c EXCEPT !.d = initDataManager(@),
            !.connectState.cursor.element = TRUE]

startConnectMode(c, userId) ==
  [c EXCEPT !.connectState.isActive = TRUE,
            !.connectState.currentUserId = userId,
            !.d = setCurrentUser(@, userId),
            !.connectState.cursor.isActive = TRUE]

hideCursor(c) ==
  IF ~c.connectState.cursor.element THEN c
  ELSE [c EXCEPT !.connectState.cursor.isVisible = FALSE]

showCursor(c) ==
  IF ~c.connectState.cursor.element THEN c
  ELSE [c EXCEPT !.connectState.cursor.isVisible = TRUE]

\* x, y are normalised coordinates in hundredths
updateCursorPosition(c, x, y, isPointing) ==
  IF ~c.connectState.cursor.isActive \/ ~c.connectState.cursor.element THEN c
  ELSE LET mirroredX == 100 - x
           c1 == [c EXCEPT !.connectState.cursor.targetPosition =
                     [x |-> (mirroredX * Window.innerWidth) \div 100,
                      y |-> (y * Window.innerHeight) \div 100]]
           c2 == IF isPointing /\ ~c1.connectState.cursor.isVisible
                 THEN showCursor(c1)
                 ELSE IF ~isPointing /\ c1.connectState.cursor.isVisible
                      THEN hideCursor(c1)
                      ELSE c1
       IN [c2 EXCEPT !.connectState.cursor.isDrawing = isPointing]

startDrawing(c, x, y) ==
  [c EXCEPT !.connectState.isDrawing = TRUE,
            !.connectState.currentPath = << [x |-> x, y |-> y] >>,
            !.connectState.activeDrawingLines = @ + 1]

\* continueDrawing that restarts the path at every point
continueDrawingRestarts(c, x, y) ==
  IF ~c.connectState.isDrawing THEN c
  ELSE [c EXCEPT !.connectState.currentPath = << [x |-> x, y |-> y] >>]

continueDrawing(c, x, y) ==
  IF ~c.connectState.isDrawing THEN c
  ELSE [c EXCEPT !.connectState.currentPath = Append(@, [x |-> x, y |-> y])]

addDrawingPoint(c, x, y) ==
  IF ~c.connectState.isDrawing THEN startDrawing(c, x, y)
  ELSE continueDrawing(c, x, y)

PathMin(path, f) ==
  CHOOSE m \in {path[i][f] : i \in DOMAIN path} :
    \A i \in DOMAIN path : m <= path[i][f]

PathMax(path, f) ==
  CHOOSE m \in {path[i][f] : i \in DOMAIN path} :
    \A i \in DOMAIN path : m >= path[i][f]

\* detectCircle without the clamp of the radius
detectCircleUnclamped(path, currentUserId) ==
  IF Len(path) < MinDetectPoints THEN NULL
  ELSE LET minX == PathMin(path, "x")
           maxX == PathMax(path, "x")
           centerX2 == minX + maxX
           centerY2 == PathMin(path, "y") + PathMax(path, "y")
           screenRadius2 == Max(maxX - minX, PathMax(path, "y") - PathMin(path, "y"))
           originalWorld == screenTo3D(centerX2, centerY2,
                                       Window.innerWidth, Window.innerHeight)
           originalEdge == screenTo3D(centerX2 + screenRadius2, centerY2,
                                      Window.innerWidth, Window.innerHeight)
       IN [x |-> originalWorld.x * SpreadFactor,
           z |-> originalWorld.z * SpreadFactor,
           radius |-> Abs(originalEdge.x * SpreadFactor
                            - originalWorld.x * SpreadFactor),
           userId |-> currentUserId]

\* detectCircle (the live definition; the earlier one is commented out).
\* The edge point has the centre's screenY, so the square root of the
\* squared differences is the absolute difference of the x coordinates.
detectCircle(path, currentUserId) ==
  IF Len(path) < MinDetectPoints THEN NULL
  ELSE LET minX == PathMin(path, "x")
           maxX == PathMax(path, "x")
           minY == PathMin(path, "y")
           maxY == PathMax(path, "y")
           centerX2 == minX + maxX
           centerY2 == minY + maxY
           screenRadius2 == Max(maxX - minX, maxY - minY)
           originalWorld == screenTo3D(centerX2, centerY2,
                                       Window.innerWidth, Window.innerHeight)
           worldX == originalWorld.x * SpreadFactor
           worldZ == originalWorld.z * SpreadFactor
           originalEdge == screenTo3D(centerX2 + screenRadius2, centerY2,
                                      Window.innerWidth, Window.innerHeight)
           worldRadius == Abs(originalEdge.x * SpreadFactor - worldX)
           finalRadius == Max(MinFinalRadius, Min(worldRadius, MaxFinalRadius))
       IN [x |-> worldX, z |-> worldZ, radius |-> finalRadius,
           userId |-> currentUserId]

RECURSIVE countPoints(_, _)
countPoints(intersections, i) ==
  IF i > Len(intersections) THEN 0
  ELSE Len(intersections[i].points) + countPoints(intersections, i + 1)

\* one star per intersecting pair instead of one per point
createStarsPerPair(c, intersections) ==
  [c EXCEPT !.connectState.stars = @ + Len(intersections)]

\* createStarsAtIntersections: one star per intersection point
createStarsAtIntersections(c, intersections) ==
  [c EXCEPT !.connectState.stars = @ + countPoints(intersections, 1)]

\* finishDrawing without the test of the path against minCirclePoints
finishDrawingAnyLength(c, t) ==
  IF ~c.connectState.isDrawing THEN c
  ELSE LET c1 == [c EXCEPT !.connectState.isDrawing = FALSE,
                           !.connectState.activeDrawingLines =
                              IF @ > 0 THEN @ - 1 ELSE @]
           circle == detectCircle(c1.connectState.currentPath,
                                  c1.connectState.currentUserId)
       IN IF circle # NULL
          THEN LET c2 == [c1 EXCEPT !.d = addCircleData(@, circle, t),
                                    !.connectState.circlesInScene = @ + 1]
                   intersections == findCircleIntersections(c2.d, addedCircle(c2.d))
               IN createStarsAtIntersections(c2, intersections)
          ELSE c1

finishDrawing(c, t) ==
  IF ~c.connectState.isDrawing THEN c
  ELSE LET c1 == [c EXCEPT !.connectState.isDrawing = FALSE,
                           !.connectState.activeDrawingLines =
                              IF @ > 0 THEN @ - 1 ELSE @]
           path == c1.connectState.currentPath
       IN IF Len(path) < MinCirclePoints THEN c1
          ELSE LET circle == detectCircle(path, c1.connectState.currentUserId)
               IN IF circle # NULL
                  THEN LET c2 == [c1 EXCEPT !.d = addCircleData(@, circle, t)]
                           savedCircle == addedCircle(c2.d)
                           c3 == [c2 EXCEPT !.connectState.circlesInScene = @ + 1]
                           intersections == findCircleIntersections(c3.d, savedCircle)
                       IN IF Len(intersections) > 0
                          THEN createStarsAtIntersections(c3, intersections)
                          ELSE c3
                  ELSE c1

\* reading indexTip.x of a first hand that has no landmark 8 is a TypeError
processConnectHandResultsThrows(c, results) ==
  /\ c.connectState.isActive
  /\ results.pointingGesture # NULL
  /\ ~results.pointingGesture.indexTip.defined

processConnectHandResults(c, results, t) ==
  IF ~c.connectState.isActive THEN c
  ELSE IF processConnectHandResultsThrows(c, results) THEN c
  ELSE LET c1 == IF results.pointingGesture # NULL
                 THEN updateCursorPosition(c, results.pointingGesture.indexTip.x,
                                           results.pointingGesture.indexTip.y,
                                           results.pointingGesture.isPointing)
                 ELSE c
       IN IF results.pointingGesture # NULL /\ results.pointingGesture.isPointing
          THEN LET indexTip == results.pointingGesture.indexTip
                   mirroredX == 100 - indexTip.x
                   screenX == (mirroredX * Window.innerWidth) \div 100
                   screenY == (indexTip.y * Window.innerHeight) \div 100
               IN addDrawingPoint(c1, screenX, screenY)
          ELSE finishDrawing(c1, t)

handleConnectModeHandResults(c, results, t) ==
  IF c.connectState.isActive THEN processConnectHandResults(c, results, t) ELSE c

saveCirclesData(c) ==
  [totalCircles |-> Len(c.connectState.userCircles),
   userCircles |-> Len(UserCircles(c.connectState.userCircles,
                                   c.connectState.currentUserId)),
   currentUser |-> c.connectState.currentUserId,
   totalStars |-> c.connectState.stars]

\* stopConnectMode that drops the stroke in progress instead of finishing it
stopConnectModeStateDiscard(c, t) ==
  LET c1 == hideCursor([c EXCEPT !.connectState.isActive = FALSE,
                                 !.connectState.cursor.isActive = FALSE])
  IN [c1 EXCEPT !.connectState.isDrawing = FALSE,
                !.connectState.activeDrawingLines = IF @ > 0 THEN @ - 1 ELSE @]

stopConnectModeState(c, t) ==
  LET c1 == hideCursor([c EXCEPT !.connectState.isActive = FALSE,
                                 !.connectState.cursor.isActive = FALSE])
  IN IF c1.connectState.isDrawing THEN finishDrawing(c1, t) ELSE c1

stopConnectModeResults(c, t) == saveCirclesData(stopConnectModeState(c, t))

\* onHandResults draws the debug overlay before it classifies: with the
\* debug canvas present and handedness delivered, drawHandConnections reads
\* landmarks 0..20 of every hand and throws on a hand that lacks one
drawDebugVisualizationThrows(frame, debug) == debug /\ Malformed(frame)

\* ------------------------------------------------------------------------
\* The shell (js/main.js) and the hand tracker (js/mediapipe.js).  The
\* operators below act on a record s holding appState, the hand tracker
\* (s.handTracking.camera: the Camera object exists; isActive; running:
\* camera.start() was called and camera.stop() was not), the connect
\* controller with the data manager (s.c) and the prayer controller (s.w).
\* ------------------------------------------------------------------------
FreshAppState ==
  [mode |-> "ready", currentUserId |-> "User1",
   initialized |-> FALSE, handTrackingReady |-> FALSE]

FreshHandTracking ==
  [camera |-> FALSE, isActive |-> FALSE, running |-> FALSE, starting |-> FALSE]

\* initHandTracking returns loaded: FALSE when the MediaPipe libraries are
\* missing or the constructors throw, and then no Camera object exists
initHandTracking(s, loaded) ==
  IF loaded THEN [s EXCEPT !.handTracking.camera = TRUE] ELSE s

initializeHandTracking(s, loaded) ==
  [initHandTracking(s, loaded) EXCEPT !.appState.handTrackingReady = loaded]

initPrayerMode(w) == resetPrayerState(w)

\* initializeApplication, from the hand tracker on
initializeApplication(s, loaded) ==
  LET s1 == initializeHandTracking(s, loaded)
  IN [s1 EXCEPT !.c = initConnectMode(@),
                !.w = initPrayerMode(@),
                !.appState.initialized = TRUE]

startHandTrackingResult(s) == s.handTracking.camera

startHandTracking(s) ==
  IF ~s.handTracking.camera THEN s
  ELSE [s EXCEPT !.handTracking.isActive = TRUE,
                 !.handTracking.running = TRUE,
                 !.handTracking.starting = TRUE]

stopHandTracking(s) ==
  [s EXCEPT !.handTracking.isActive = FALSE,
            !.handTracking.running = FALSE]

exitConnectMode(s, t) ==
  LET s1 == stopHandTracking([s EXCEPT !.appState.mode = "ready"])
  IN [s1 EXCEPT !.c = stopConnectModeState(@, t)]

exitPrayMode(s, t) ==
  LET s1 == stopHandTracking([s EXCEPT !.appState.mode = "ready"])
  IN [s1 EXCEPT !.w = stopPrayerModeState(@, t)]

\* enterConnectMode that leaves a running pray mode alone
enterConnectModeOverPray(s, t) ==
  LET s1 == [s EXCEPT !.appState.mode = "connect"]
  IN IF ~startHandTrackingResult(s1) THEN exitConnectMode(s1, t)
     ELSE [startHandTracking(s1) EXCEPT
             !.c = startConnectMode(@, s1.appState.currentUserId)]

enterConnectMode(s, t) ==
  LET s0 == IF s.appState.mode = "pray" THEN exitPrayMode(s, t) ELSE s
      s1 == [s0 EXCEPT !.appState.mode = "connect"]
  IN IF ~startHandTrackingResult(s1) THEN exitConnectMode(s1, t)
     ELSE [startHandTracking(s1) EXCEPT
             !.c = startConnectMode(@, s1.appState.currentUserId)]

enterPrayMode(s, t, mesh) ==
  LET s0 == IF s.appState.mode = "connect" THEN exitConnectMode(s, t) ELSE s
      s1 == [s0 EXCEPT !.appState.mode = "pray"]
  IN IF ~startHandTrackingResult(s1) THEN exitPrayMode(s1, t)
     ELSE [startHandTracking(s1) EXCEPT !.w = startPrayerMode(@, mesh)]

\* handleConnectButton that enters connect mode without looking at
\* handTrackingReady or at the result of startHandTracking
handleConnectButtonUnguarded(s, t) ==
  IF s.appState.mode = "connect" THEN exitConnectMode(s, t)
  ELSE LET s0 == IF s.appState.mode = "pray" THEN exitPrayMode(s, t) ELSE s
           s1 == startHandTracking([s0 EXCEPT !.appState.mode = "connect"])
       IN [s1 EXCEPT !.c = startConnectMode(@, s1.appState.currentUserId)]

handleConnectButton(s, t) ==
  IF ~s.appState.handTrackingReady THEN s
  ELSE IF s.appState.mode = "connect" THEN exitConnectMode(s, t)
  ELSE enterConnectMode(s, t)

handlePrayButton(s, t, mesh) ==
  IF ~s.appState.handTrackingReady THEN s
  ELSE IF s.appState.mode = "pray" THEN exitPrayMode(s, t)
  ELSE enterPrayMode(s, t, mesh)

\* e.key is given in lower case; e.target.tagName = 'INPUT' is e.input
handleKeyboardShortcuts(s, e, t, mesh) ==
  IF e.input THEN s
  ELSE IF e.key = "c" THEN (IF e.ctrlKey THEN s ELSE handleConnectButton(s, t))
  ELSE IF e.key = "p" THEN (IF e.ctrlKey THEN s ELSE handlePrayButton(s, t, mesh))
  ELSE IF e.key = "escape"
       THEN IF s.appState.mode = "connect" THEN exitConnectMode(s, t)
            ELSE IF s.appState.mode = "pray" THEN exitPrayMode(s, t)
            ELSE s
  ELSE s

\* String.prototype.trim on the values the input delivers
Trim(value) == IF value = " " THEN "" ELSE value

handleUserIdChange(s, value) ==
  [s EXCEPT !.appState.currentUserId =
     IF Trim(value) = "" THEN "User1" ELSE Trim(value)]

\* the promise of camera.start() settles
cameraStartSettles(s, ok) ==
  IF ok THEN [s EXCEPT !.handTracking.starting = FALSE]
  ELSE [s EXCEPT !.handTracking.starting = FALSE,
                 !.handTracking.isActive = FALSE,
                 !.handTracking.running = FALSE]

\* onHandTrackingResults: the frame is handed to import().then, whose
\* callback is appended to the dispatched callbacks not yet run; stale notes
\* for the properties that the mode was stopped after the dispatch
onHandTrackingResults(s, inflight, frame) ==
  IF ~s.appState.initialized THEN inflight
  ELSE IF s.appState.mode = "connect"
       THEN Append(inflight, [mode |-> "connect", frame |-> frame,
                              stale |-> FALSE])
  ELSE IF s.appState.mode = "pray"
       THEN Append(inflight, [mode |-> "pray", frame |-> frame,
                              stale |-> FALSE])
  ELSE inflight

\* onHandResults of the hand tracker for a frame the overlay can draw
onHandResults(s, inflight, frame) ==
  IF ~s.handTracking.isActive THEN inflight
  ELSE onHandTrackingResults(s, inflight, frame)

\* a then-callback that runs the handlers without their isActive tests
deliverResultsUnguarded(s, dispatched, t) ==
  IF dispatched.mode = "connect"
  THEN [s EXCEPT !.c = processConnectHandResults(
                         [@ EXCEPT !.connectState.isActive = TRUE],
                         processHandResults(dispatched.frame), t)]
  ELSE [s EXCEPT !.w = processPrayerHandResults(
                         [@ EXCEPT !.prayerState.isActive = TRUE],
                         processHandResults(dispatched.frame), t)]

\* the then-callback of a dispatched frame
deliverResults(s, dispatched, t) ==
  IF dispatched.mode = "connect"
  THEN [s EXCEPT !.c = handleConnectModeHandResults(
                         @, processHandResults(dispatched.frame), t)]
  ELSE [s EXCEPT !.w = handlePrayerModeHandResults(
                         @, processHandResults(dispatched.frame), t)]

\* one run of mainLoop
mainLoop(s) ==
  IF s.appState.mode = "pray" THEN [s EXCEPT !.w = updatePrayer(@)] ELSE s

\* handleFileImport from the moment the FileReader has the text
handleFileImportTimer(s, file) ==
  file.parses /\ file.json.hasCircles /\ s.appState.mode = "connect"

handleFileImport(s, file, shouldReplace, t, rands) ==
  LET s1 == [s EXCEPT !.c.d = loadDataFromFile(@, file, shouldReplace, t, rands)]
  IN IF handleFileImportTimer(s, file) THEN exitConnectMode(s1, t) ELSE s1

\* the setTimeout callback of handleFileImport
importTimerCallback(s, t) == enterConnectMode(s, t)

\* ------------------------------------------------------------------------
\* The state of a subsystem nothing has touched since the page loaded
\* ------------------------------------------------------------------------
NoDataEvent == [op |-> "none"]

NoStroke == [name |-> "none", ox |-> 0, oy |-> 0, sx |-> 0, sy |-> 0, n |-> 0]

NoConnectEvent == [op |-> "none"]

NoGeom == [set |-> FALSE]

NoAppEvent == [op |-> "none"]

NoTasks == [inflight |-> << >>, importTimers |-> 0]

NoStream == [n |-> 0, interval |-> 0, pos |-> 0]

InitDataIdle ==
  /\ dataState = FreshDataState
  /\ loadPending = FALSE
  /\ saveTimers = 0
  /\ dataEvent = NoDataEvent
  /\ kept = {}
  /\ dataOps = [adds |-> 0, imports |-> 0, clears |-> 0]

InitConnectIdle ==
  /\ connectState = FreshConnectState
  /\ stroke = [shape |-> NoStroke, sent |-> 0]

\* ------------------------------------------------------------------------
\* js/modelLoader.js.  The operators act on a record m: m.objects[name] is
\* the number of objects setupModel added to the scene for the model,
\* m.models[name] what models[name] holds, m.pending the load or timer whose
\* callback has not run yet, m.index the index of the model being loaded,
\* m.materials whether objLoader has materials set, m.allComplete how often
\* the onAllComplete callback ran.
\* ------------------------------------------------------------------------
modelNames == << "goddess", "altar", "roof" >>

FreshLoader ==
  [pending |-> "none", index |-> 0, materials |-> FALSE,
   objects |-> [n \in {modelNames[i] : i \in DOMAIN modelNames} |-> 0],
   models |-> [n \in {modelNames[i] : i \in DOMAIN modelNames} |-> "none"],
   goddessMesh |-> FALSE, allComplete |-> 0,
   status |-> [text |-> "none"]]

updateStatus(m, status) == [m EXCEPT !.status = status]

setupModel(m, name, object) ==
  [m EXCEPT !.objects[name] = @ + 1,
            !.models[name] = object,
            !.goddessMesh = IF name = "goddess" THEN TRUE ELSE @]

createPlaceholderForModel(m, name) ==
  IF name \in {"goddess", "altar", "roof"}
  THEN setupModel(m, name, "placeholder")
  ELSE m

createPlaceholderModels(m) ==
  updateStatus(
    createPlaceholderForModel(
      createPlaceholderForModel(
        createPlaceholderForModel(
          updateStatus(m, [text |-> "creating placeholders"]),
          "goddess"),
        "altar"),
      "roof"),
    [text |-> "placeholders loaded"])

\* loadOBJModel up to its return: the MTL load is started
loadOBJModel(m, modelName) ==
  [updateStatus(m, [text |-> "loading", name |-> modelName])
     EXCEPT !.materials = FALSE, !.pending = "mtl"]

loadModelSequentially(m, index) ==
  IF index >= Len(modelNames)
  THEN [updateStatus(m, [text |-> "all loaded"])
          EXCEPT !.allComplete = @ + 1, !.index = index, !.pending = "none"]
  ELSE loadOBJModel([m EXCEPT !.index = index], modelNames[index + 1])

\* the onComplete callback loadModelSequentially hands to loadOBJModel
onComplete(m) ==
  [updateStatus(m, [text |-> "loaded", count |-> m.index + 1])
     EXCEPT !.pending = "timer"]

\* the callbacks of mtlLoader.load
onMtlLoad(m) == [m EXCEPT !.materials = TRUE, !.pending = "obj"]

onMtlProgress(m, progress) ==
  IF progress.lengthComputable
  THEN updateStatus(m, [text |-> "materials", name |-> modelNames[m.index + 1],
                        percent |-> progress.percent])
  ELSE m

onMtlError(m) == [m EXCEPT !.materials = FALSE, !.pending = "objPlain"]

\* the callbacks of objLoader.load after the materials were loaded
onObjLoad(m) == onComplete(setupModel(m, modelNames[m.index + 1], "model"))

onObjProgress(m, progress) ==
  IF progress.lengthComputable
  THEN updateStatus(m, [text |-> "object", name |-> modelNames[m.index + 1],
                        percent |-> progress.percent])
  ELSE m

onObjError(m) ==
  onComplete(createPlaceholderForModel(
    updateStatus(m, [text |-> "error", name |-> modelNames[m.index + 1]]),
    modelNames[m.index + 1]))

\* the callbacks of objLoader.load after the materials failed to load
onPlainObjLoad(m) ==
  onComplete(setupModel(m, modelNames[m.index + 1], "plain"))

\* an error callback that creates the placeholder and never reports completion
onPlainObjErrorSilent(m) ==
  [createPlaceholderForModel(m, modelNames[m.index + 1])
     EXCEPT !.pending = "none"]

onPlainObjError(m) ==
  onComplete(createPlaceholderForModel(m, modelNames[m.index + 1]))

\* the setTimeout callback of onComplete
onNextModelTimer(m) == loadModelSequentially(m, m.index + 1)

loadRealModels(m, env) ==
  IF ~env.three
  THEN updateStatus(m, [text |-> "no THREE"])
  ELSE IF ~env.loaders
       THEN createPlaceholderModels(updateStatus(m, [text |-> "no loaders"]))
       ELSE loadModelSequentially(m, 0)

loadModels(m, useRealModels, env) ==
  IF useRealModels
  THEN loadRealModels(updateStatus(m, [text |-> "loading models"]), env)
  ELSE createPlaceholderModels(updateStatus(m, [text |-> "loading models"]))

InitShellIdle ==
  /\ loader = FreshLoader
  /\ tasks = NoTasks
  /\ appState = FreshAppState
  /\ handTracking = FreshHandTracking
  /\ appEvent = NoAppEvent
  /\ connectEvent = NoConnectEvent
  /\ connectSessions = 0

\* ------------------------------------------------------------------------
\* Prayer mode: the handlers as actions
\* ------------------------------------------------------------------------
PrayerFrames == {NoHands, TwoHandsApart, TwoHandsJoined, TwoShortHands}

TimePoints == {StartTime + d : d \in TimeOffsets}

\* what a frame's processed results say about the prayer gesture
FrameEvent(frame, dropped) ==
  LET results == processHandResults(frame)
  IN [op |-> IF dropped THEN "dropped" ELSE "frame",
      threw |-> dropped,
      hands |-> results.handsDetected,
      malformed |-> Malformed(frame),
      absent |-> results.prayerGesture = NULL,
      isPrayerGesture |-> IF results.prayerGesture = NULL THEN FALSE
                          ELSE results.prayerGesture.isPrayerGesture]

HistInit ==
  [inRun |-> FALSE, runActivations |-> 0,
   activated |-> FALSE, deactivated |-> FALSE, staleChange |-> FALSE,
   lastActivation |-> -1, lastDeactivation |-> -1,
   sinceActivation |-> -1, sinceDeactivation |-> -1,
   activations |-> 0, counted |-> 0, afterFalse |-> FALSE]

\* History after a handler took the prayer state from w to w2 at time t.
\*   inRun, runActivations: the frames fed since the last false frame were
\*     all true frames, and the activations since the first of them;
\*   activated, deactivated: what this handler did;
\*   staleChange: this step ran a callback created in an earlier session and
\*     the callback changed the prayer state;
\*   sinceActivation, sinceDeactivation: on an activation, the time since the
\*     session's previous activation and since its last deactivation (-1: none);
\*   activations: the activations since startPrayerMode; counted: after
\*     stopPrayerMode, the activations of the session it ended;
\*   afterFalse: the last frame fed to the session was a false frame.
HistAfter(h, w, w2, ev, t, stale) ==
  LET activated == ~w.prayerState.isPraying /\ w2.prayerState.isPraying
      deactivated == w.prayerState.isPraying /\ ~w2.prayerState.isPraying
      fed == ev.op = "frame" /\ w.prayerState.isActive
      one == IF activated THEN 1 ELSE 0
  IN IF w.prayerState.isActive # w2.prayerState.isActive
     THEN [HistInit EXCEPT !.deactivated = deactivated, !.staleChange = stale,
                           !.counted = h.activations + one]
     ELSE [inRun |-> IF fed THEN ev.isPrayerGesture ELSE h.inRun,
           runActivations |->
             IF fed
             THEN IF ev.isPrayerGesture
                  THEN (IF h.inRun THEN h.runActivations ELSE 0) + one
                  ELSE 0
             ELSE IF h.inRun THEN h.runActivations + one ELSE h.runActivations,
           activated |-> activated,
           deactivated |-> deactivated,
           staleChange |-> stale,
           lastActivation |-> IF activated THEN t ELSE h.lastActivation,
           lastDeactivation |-> IF deactivated THEN t ELSE h.lastDeactivation,
           sinceActivation |->
             IF activated /\ h.lastActivation >= 0
             THEN t - h.lastActivation ELSE -1,
           sinceDeactivation |->
             IF activated /\ h.lastDeactivation >= 0
             THEN t - h.lastDeactivation ELSE -1,
           activations |-> h.activations + one,
           counted |-> h.counted,
           afterFalse |-> IF fed THEN ~ev.isPrayerGesture ELSE h.afterFalse]

SetWorldVars(w, ev, stale) ==
  /\ prayerState' = w.prayerState
  /\ scene' = w.scene
  /\ rafQueue' = w.rafQueue
  /\ timeouts' = w.timeouts
  /\ nextCloud' = w.nextCloud
  /\ session' = w.session
  /\ lastEvent' = ev
  /\ hist' = HistAfter(hist, World, w, ev, now, stale)

SetWorldStale(w, ev, stale) ==
  /\ SetWorldVars(w, ev, stale)
  /\ UNCHANGED << goddessMesh, dataVars, connectVars, geom, shellVars >>

SetWorld(w, ev) == SetWorldStale(w, ev, FALSE)

RemoveAt(q, i) == [j \in 1..(Len(q) - 1) |-> IF j < i THEN q[j] ELSE q[j + 1]]

\* the browser runs the first n queued animation-frame callbacks, in order
RECURSIVE runAnimationFrame(_, _, _)
runAnimationFrame(w, n, t) ==
  IF n = 0 THEN w
  ELSE LET f == Head(w.rafQueue)
           w1 == [w EXCEPT !.rafQueue = Tail(@)]
       IN runAnimationFrame(fade(w1, f, t), n - 1, t)

\* some closure of an earlier session changes the prayer state when the
\* first n queued animation-frame callbacks run
RECURSIVE staleFade(_, _, _)
staleFade(w, n, t) ==
  IF n = 0 THEN FALSE
  ELSE LET f == Head(w.rafQueue)
           w1 == [w EXCEPT !.rafQueue = Tail(@)]
           w2 == fade(w1, f, t)
       IN \/ f.session < w.session /\ w2.prayerState # w1.prayerState
          \/ staleFade(w2, n - 1, t)

\* initPrayerMode has run
InitPrayerState ==
  /\ now = StartTime
  /\ prayerState = FreshPrayerState
  /\ scene = {}
  /\ rafQueue = << >>
  /\ timeouts = << >>
  /\ nextCloud = 1
  /\ session = 0
  /\ goddessMesh \in BOOLEAN
  /\ triggers = 0
  /\ lastEvent = [op |-> "other"]
  /\ hist = HistInit

InitPrayer ==
  /\ InitPrayerState
  /\ stream = NoStream
  /\ InitDataIdle
  /\ InitConnectIdle
  /\ InitShellIdle
  /\ geom = NoGeom

StartPrayerMode ==
  /\ ~prayerState.isActive
  /\ session < MaxSessions
  /\ SetWorld(startPrayerMode(World, goddessMesh),
              [op |-> "start", ended |-> hist.counted])
  /\ UNCHANGED << now, triggers, stream >>

StopPrayerMode ==
  /\ prayerState.isActive
  /\ SetWorld(stopPrayerModeState(World, now),
              [op |-> "stop", results |-> stopPrayerModeResults(World, now),
               wasPraying |-> prayerState.isPraying,
               cloud |-> prayerState.goddessPointCloud])
  /\ UNCHANGED << now, triggers, stream >>

\* onHandResults -> onHandTrackingResults -> handlePrayerModeHandResults for
\* one camera frame; a frame on which the debug overlay throws is not
\* delivered
PrayerFrame ==
  /\ prayerState.isActive
  /\ \E frame \in PrayerFrames :
     \E debug \in (IF Malformed(frame) THEN BOOLEAN ELSE {TRUE}) :
       LET dropped == drawDebugVisualizationThrows(frame, debug)
           w == IF dropped THEN World
                ELSE handlePrayerModeHandResults(World, processHandResults(frame), now)
       IN /\ w.prayerState.prayerCount <= MaxPrayers
          /\ SetWorld(w, FrameEvent(frame, dropped))
  /\ UNCHANGED << now, triggers, stream >>

TriggerPrayer ==
  /\ prayerState.isActive /\ ~prayerState.isPraying
  /\ triggers < MaxTriggers
  /\ prayerState.prayerCount < MaxPrayers
  /\ SetWorld(triggerPrayer(World, now), [op |-> "trigger"])
  /\ triggers' = triggers + 1
  /\ UNCHANGED << now, stream >>

\* a setTimeout callback of triggerPrayer comes due
AutoEndTimeout ==
  /\ \E i \in DOMAIN timeouts :
       /\ timeouts[i].due <= now
       /\ LET w == [World EXCEPT !.timeouts = RemoveAt(@, i)]
              w2 == autoEndCallback(w, now)
          IN SetWorldStale(w2, [op |-> "timeout"],
                           /\ timeouts[i].session < session
                           /\ w2.prayerState # prayerState)
  /\ UNCHANGED << now, triggers, stream >>

\* requestAnimationFrame: every queued fade() closure runs once
AnimationFrame ==
  /\ rafQueue # << >>
  /\ SetWorldStale(runAnimationFrame(World, Len(rafQueue), now),
                   [op |-> "other"], staleFade(World, Len(rafQueue), now))
  /\ UNCHANGED << now, triggers, stream >>

\* the main loop's updatePrayer, run while the shell is in pray mode
UpdatePrayer ==
  /\ prayerState.isActive
  /\ SetWorld(updatePrayer(World), [op |-> "other"])
  /\ UNCHANGED << now, triggers, stream >>

\* time passes: the pending animation frame runs, then the clock moves on,
\* never past a callback that is due
Tick ==
  /\ \A i \in DOMAIN timeouts : timeouts[i].due > now
  /\ LET w == runAnimationFrame(World, Len(rafQueue), now)
         dues == {timeouts[i].due : i \in DOMAIN timeouts}
                   \cup {w.rafQueue[i].startTime + FadeTime : i \in DOMAIN w.rafQueue}
     IN /\ \E t \in TimePoints \cup dues :
             /\ t > now
             /\ \A d \in dues : t <= d
             /\ now' = t
        /\ SetWorldStale(w, [op |-> "other"], staleFade(World, Len(rafQueue), now))
  /\ UNCHANGED << triggers, stream >>

NextPrayer ==
  \/ StartPrayerMode
  \/ StopPrayerMode
  \/ PrayerFrame
  \/ TriggerPrayer
  \/ AutoEndTimeout
  \/ AnimationFrame
  \/ UpdatePrayer
  \/ Tick

SpecPrayer == InitPrayer /\ [][NextPrayer]_vars

\* ------------------------------------------------------------------------
\* A synthetic fact stream: LeadFrames false frames, stream.n true frames,
\* LeadFrames false frames, one frame every stream.interval milliseconds,
\* fed to a session that startPrayerMode has just opened
\* ------------------------------------------------------------------------
StreamLength == LeadFrames + stream.n + LeadFrames

StreamFact(k) == k > LeadFrames /\ k <= LeadFrames + stream.n

InitStream ==
  /\ InitPrayerState
  /\ stream \in [n : 1..MaxRun, interval : StreamIntervals, pos : {0}]
  /\ InitDataIdle
  /\ InitConnectIdle
  /\ InitShellIdle
  /\ geom = NoGeom

StreamStart ==
  /\ ~prayerState.isActive
  /\ session = 0
  /\ SetWorld(startPrayerMode(World, goddessMesh), [op |-> "other"])
  /\ UNCHANGED << now, triggers, stream >>

StreamFrame ==
  /\ prayerState.isActive
  /\ stream.pos < StreamLength
  /\ LET frame == IF StreamFact(stream.pos + 1) THEN TwoHandsJoined ELSE TwoHandsApart
         w0 == runAnimationFrame(World, Len(rafQueue), now)
         w == handlePrayerModeHandResults(w0, processHandResults(frame), now)
     IN SetWorld(w, FrameEvent(frame, FALSE))
  /\ stream' = [stream EXCEPT !.pos = @ + 1]
  /\ now' = now + stream.interval
  /\ UNCHANGED triggers

NextStream ==
  \/ StreamStart
  \/ StreamFrame

SpecStream == InitStream /\ [][NextStream]_vars

\* ------------------------------------------------------------------------
\* The dataset: its operations as actions
\* ------------------------------------------------------------------------
JsonCircle(user, x, z, radius) ==
  [user |-> user, x |-> x, z |-> z, radius |-> radius]

\* a body with a circles array, and one without
Json(circles) == [hasCircles |-> TRUE, circles |-> circles]
JsonWithoutCircles == [hasCircles |-> FALSE, circles |-> << >>]

\* what fetch('./circle_data.json') may settle to
Responses ==
  { [ok |-> FALSE, json |-> JsonWithoutCircles],
    [ok |-> TRUE, json |-> JsonWithoutCircles],
    [ok |-> TRUE,
     json |-> Json(<< JsonCircle("Alice", 0, 0, 200),
                      JsonCircle("Bob", 300, 0, 200) >>)] }

\* the files the user may import: an owner the samples do not have, twice
\* within the tolerance, with a circle Alice's sample has; an owner of the
\* samples, twice within the tolerance; a file that is not JSON
ImportFiles ==
  { [parses |-> TRUE,
     json |-> Json(<< JsonCircle("Dana", 100, 100, 150),
                      JsonCircle("Dana", 105, 100, 150),
                      JsonCircle("Alice", 200, 150, 180) >>)],
    [parses |-> TRUE,
     json |-> Json(<< JsonCircle("Alice", 0, 0, 200),
                      JsonCircle("Alice", 4, 0, 200),
                      JsonCircle("Bob", 300, 0, 200) >>)],
    [parses |-> FALSE, json |-> JsonWithoutCircles] }

\* Math.random() suffixes for the circles of one file: all alike, or all
\* different
RandomSuffixes == << "k3x", "p9q", "m2w", "z7c", "h5t" >>

RandomDraws ==
  { [n \in 1..MaxFileCircles |-> RandomSuffixes[1]],
    [n \in 1..MaxFileCircles |-> RandomSuffixes[n]] }

\* circles handed to addCircleData, in ten-thousandths
DrawnCircles ==
  { [x |-> 30000, z |-> 0, radius |-> 20000],
    [x |-> 12345, z |-> -6789, radius |-> 15049] }

DataUsers == {"User1", "Alice"}

\* user ids typed into the user-id field: letters, digits, '_' and '-'
TypedUsers == {"User1", "Alice", "7"}

DataWorld ==
  [dataState |-> dataState, loadPending |-> loadPending, saveTimers |-> saveTimers]

SetData(d, ev, keep) ==
  /\ dataState' = d.dataState
  /\ loadPending' = d.loadPending
  /\ saveTimers' = d.saveTimers
  /\ dataEvent' = ev
  /\ kept' = keep

InitDataManager ==
  /\ ~dataState.autoSaveInterval
  /\ SetData(initDataManager(DataWorld), [op |-> "init"], kept)
  /\ UNCHANGED << now, dataOps >>
  /\ UNCHANGED << prayerVars, stream, connectVars, geom, shellVars >>

\* the fetch of the initial load settles and loadExistingData resumes
LoadComplete ==
  /\ loadPending
  /\ \E response \in Responses :
       SetData(loadExistingData(DataWorld, response),
               [op |-> "load", response |-> response], kept)
  /\ UNCHANGED << now, dataOps >>
  /\ UNCHANGED << prayerVars, stream, connectVars, geom, shellVars >>

AddCircleUpTo(maxAdds) ==
  /\ dataOps.adds < maxAdds
  /\ \E circleData \in DrawnCircles :
       LET d == addCircleData(DataWorld, circleData, now)
       IN SetData(d, [op |-> "add", circle |-> addedCircle(d),
                      before |-> dataState.users],
                  kept \cup {[owner |-> dataState.currentUser,
                              circle |-> addedCircle(d)]})
  /\ dataOps' = [dataOps EXCEPT !.adds = @ + 1]
  /\ UNCHANGED now
  /\ UNCHANGED << prayerVars, stream, connectVars, geom, shellVars >>

AddCircle == AddCircleUpTo(MaxAdds)

\* handleFileImport -> loadDataFromFile, with the user's answer to confirm()
ImportFileUpTo(maxImports) ==
  /\ dataOps.imports < maxImports
  /\ \E file \in ImportFiles, shouldReplace \in BOOLEAN,
        rands \in RandomDraws :
       LET d == loadDataFromFile(DataWorld, file, shouldReplace, now, rands)
           loaded == file.parses /\ file.json.hasCircles
       IN SetData(d,
                  IF ~loaded THEN [op |-> "rejected"]
                  ELSE [op |-> IF shouldReplace THEN "replace" ELSE "merge",
                        circles |-> file.json.circles,
                        before |-> dataState.users,
                        repeated |-> /\ dataEvent.op = "merge"
                                     /\ dataEvent.circles = file.json.circles],
                  IF loaded /\ shouldReplace THEN {} ELSE kept)
  /\ dataOps' = [dataOps EXCEPT !.imports = @ + 1]
  /\ UNCHANGED now
  /\ UNCHANGED << prayerVars, stream, connectVars, geom, shellVars >>

ImportFile == ImportFileUpTo(MaxImports)

SetCurrentUserTo(userIds) ==
  /\ \E userId \in userIds :
       /\ userId # dataState.currentUser
       /\ SetData(setCurrentUser(DataWorld, userId), [op |-> "user"], kept)
  /\ UNCHANGED << now, dataOps >>
  /\ UNCHANGED << prayerVars, stream, connectVars, geom, shellVars >>

SetCurrentUser == SetCurrentUserTo(DataUsers)

ClearAllData ==
  /\ dataOps.clears < MaxClears
  /\ \E confirm \in BOOLEAN :
       SetData(clearAllData(DataWorld, confirm), [op |-> "clear"],
               IF confirm THEN {} ELSE kept)
  /\ dataOps' = [dataOps EXCEPT !.clears = @ + 1]
  /\ UNCHANGED now
  /\ UNCHANGED << prayerVars, stream, connectVars, geom, shellVars >>

ClearUserData ==
  /\ dataOps.clears < MaxClears
  /\ \E i \in DOMAIN dataState.users :
       LET userId == dataState.users[i].userId
       IN SetData(clearUserData(DataWorld, userId), [op |-> "clear"],
                  {k \in kept : k.owner # userId})
  /\ dataOps' = [dataOps EXCEPT !.clears = @ + 1]
  /\ UNCHANGED now
  /\ UNCHANGED << prayerVars, stream, connectVars, geom, shellVars >>

\* a call of saveDataToFile: whether setItem returned, what the call
\* returned, and the dataset and dirty flag it found
SaveEvent(ok) ==
  [op |-> "save", ok |-> ok,
   result |-> saveDataToFileResult(DataWorld, ok),
   users |-> dataState.users,
   hasUnsavedChanges |-> dataState.hasUnsavedChanges]

\* a save that addCircleData scheduled with setTimeout runs
DelayedSave ==
  /\ saveTimers > 0
  /\ \E ok \in BOOLEAN :
       SetData(saveDataToFile([DataWorld EXCEPT !.saveTimers = @ - 1], ok),
               SaveEvent(ok), kept)
  /\ UNCHANGED << now, dataOps >>
  /\ UNCHANGED << prayerVars, stream, connectVars, geom, shellVars >>

\* the autosave interval fires; oks: whether localStorage.setItem may throw
AutoSaveWith(oks) ==
  /\ dataState.autoSaveInterval
  /\ dataState.hasUnsavedChanges
  /\ \E ok \in oks :
       SetData(autoSaveTick(DataWorld, ok),
               IF Len(dataState.users) > 0 THEN SaveEvent(ok)
               ELSE [op |-> "idle"],
               kept)
  /\ UNCHANGED << now, dataOps >>
  /\ UNCHANGED << prayerVars, stream, connectVars, geom, shellVars >>

AutoSave == AutoSaveWith(BOOLEAN)

InitData ==
  /\ InitPrayerState
  /\ goddessMesh
  /\ stream = NoStream
  /\ InitDataIdle
  /\ InitConnectIdle
  /\ InitShellIdle
  /\ geom = NoGeom

NextData ==
  \/ InitDataManager
  \/ LoadComplete
  \/ AddCircle
  \/ ImportFile
  \/ SetCurrentUser
  \/ ClearAllData
  \/ ClearUserData
  \/ DelayedSave
  \/ AutoSave

SpecData == InitData /\ [][NextData]_vars

\* the dataset while the autosave interval keeps firing and localStorage
\* takes every write: the interval of setupAutoSave is never cleared
SpecDataLive ==
  InitData /\ [][NextData]_vars /\ WF_vars(AutoSaveWith({TRUE}))

\* ------------------------------------------------------------------------
\* The dataset with the clock running: addCircleData reads Date.now() for
\* the id, and the clock may or may not have advanced between two calls
\* ------------------------------------------------------------------------
AddCircleTimed == AddCircleUpTo(MaxTimedAdds)

ImportFileTimed == ImportFileUpTo(MaxTimedImports)

\* a millisecond passes
DataTick ==
  /\ now < StartTime + MaxDataTicks
  /\ now' = now + 1
  /\ dataEvent' = [op |-> "tick"]
  /\ UNCHANGED << dataState, loadPending, saveTimers, kept, dataOps >>
  /\ UNCHANGED << prayerState, scene, rafQueue, timeouts, nextCloud, session,
                  goddessMesh, triggers, lastEvent, hist >>
  /\ UNCHANGED << stream, connectVars, geom, shellVars >>

SetCurrentUserTyped == SetCurrentUserTo(TypedUsers)

\* a caller asks for the circles of the other users
GetAllOtherUsersCircles ==
  /\ dataEvent.op # "others"
  /\ dataEvent' = [op |-> "others",
                   circles |-> getAllOtherUsersCircles(DataWorld)]
  /\ UNCHANGED << now, dataState, loadPending, saveTimers, kept, dataOps >>
  /\ UNCHANGED << prayerState, scene, rafQueue, timeouts, nextCloud, session,
                  goddessMesh, triggers, lastEvent, hist >>
  /\ UNCHANGED << stream, connectVars, geom, shellVars >>

\* finishDrawing asks for the intersections of the circle addCircleData
\* has just returned
FindCircleIntersections ==
  /\ dataEvent.op = "add"
  /\ dataEvent' = [op |-> "intersections",
                   circle |-> dataEvent.circle,
                   result |-> findCircleIntersections(DataWorld, dataEvent.circle)]
  /\ UNCHANGED << now, dataState, loadPending, saveTimers, kept, dataOps >>
  /\ UNCHANGED << prayerState, scene, rafQueue, timeouts, nextCloud, session,
                  goddessMesh, triggers, lastEvent, hist >>
  /\ UNCHANGED << stream, connectVars, geom, shellVars >>

NextIds ==
  \/ InitDataManager
  \/ LoadComplete
  \/ AddCircleTimed
  \/ ImportFileTimed
  \/ SetCurrentUserTyped
  \/ GetAllOtherUsersCircles
  \/ FindCircleIntersections
  \/ DataTick

SpecIds == InitData /\ [][NextIds]_vars

\* ------------------------------------------------------------------------
\* Connect mode: the handlers as actions
\* ------------------------------------------------------------------------
\* The strokes the hand may draw.  A stroke visits the first n of the twelve
\* lattice points on the border of a box whose corner is (ox, oy) and whose
\* sides are 3 * sx and 3 * sy hundredths of the camera image.
Border ==
  << << 0, 0 >>, << 1, 0 >>, << 2, 0 >>, << 3, 0 >>, << 3, 1 >>, << 3, 2 >>,
     << 3, 3 >>, << 2, 3 >>, << 1, 3 >>, << 0, 3 >>, << 0, 2 >>, << 0, 1 >> >>

Strokes ==
  { [name |-> "round", ox |-> 40, oy |-> 40, sx |-> 5, sy |-> 5, n |-> 12],
    [name |-> "wide", ox |-> 30, oy |-> 40, sx |-> 10, sy |-> 5, n |-> 12],
    [name |-> "tall", ox |-> 40, oy |-> 30, sx |-> 5, sy |-> 10, n |-> 12],
    [name |-> "line", ox |-> 30, oy |-> 50, sx |-> 10, sy |-> 0, n |-> 12],
    [name |-> "brief", ox |-> 40, oy |-> 40, sx |-> 5, sy |-> 5, n |-> 5],
    [name |-> "dot", ox |-> 50, oy |-> 50, sx |-> 0, sy |-> 0, n |-> 12] }

StrokeFrame(s, k) ==
  PointingAt(s.ox + Border[k][1] * s.sx, s.oy + Border[k][2] * s.sy)

RestFrames == {NoHands, OneOpenHand, OneShortHand}

ConnectUsers == {"User1", "Alice"}

ConnectWorld == [connectState |-> connectState, d |-> DataWorld]

TotalCircles(users) ==
  LET RECURSIVE Sum(_)
      Sum(i) == IF i = 0 THEN 0 ELSE Len(users[i].circles) + Sum(i - 1)
  IN Sum(Len(users))

\* what a handler did to the stroke and to the dataset
ConnectEvent(op, c, c2, malformed, threw) ==
  [op |-> op,
   malformed |-> malformed,
   threw |-> threw,
   wasDrawing |-> c.connectState.isDrawing,
   finished |-> c.connectState.isDrawing /\ ~c2.connectState.isDrawing,
   classified |-> /\ c.connectState.isDrawing /\ ~c2.connectState.isDrawing
                  /\ Len(c.connectState.currentPath) >= MinCirclePoints,
   added |-> TotalCircles(c2.d.dataState.users) - TotalCircles(c.d.dataState.users),
   stars |-> c2.connectState.stars - c.connectState.stars]

SetConnectVars(c, ev) ==
  /\ connectState' = c.connectState
  /\ connectEvent' = ev
  /\ dataState' = c.d.dataState
  /\ loadPending' = c.d.loadPending
  /\ saveTimers' = c.d.saveTimers
  /\ dataEvent' = NoDataEvent
  /\ kept' = kept
  /\ dataOps' = [dataOps EXCEPT !.adds =
                   @ + TotalCircles(c.d.dataState.users)
                     - TotalCircles(dataState.users)]

SetConnect(c, ev) ==
  /\ SetConnectVars(c, ev)
  /\ UNCHANGED << prayerState, scene, rafQueue, timeouts, nextCloud, session,
                  goddessMesh, triggers, lastEvent, hist, stream, geom, shellVars >>

InitConnectMode ==
  /\ ~connectState.cursor.element
  /\ SetConnect(initConnectMode(ConnectWorld), NoConnectEvent)
  /\ UNCHANGED << now, stroke, connectSessions >>

StartConnectMode ==
  /\ connectState.cursor.element
  /\ ~connectState.isActive
  /\ connectSessions < MaxConnectSessions
  /\ \E userId \in ConnectUsers :
       SetConnect(startConnectMode(ConnectWorld, userId), NoConnectEvent)
  /\ connectSessions' = connectSessions + 1
  /\ UNCHANGED << now, stroke >>

StopConnectMode ==
  /\ connectState.isActive
  /\ \E c \in {stopConnectModeState(ConnectWorld, now)} :
       /\ TotalCircles(c.d.dataState.users) - TotalCircles(dataState.users)
            <= MaxAdds - dataOps.adds
       /\ SetConnect(c, ConnectEvent("stop", ConnectWorld, c, FALSE, FALSE)
                          @@ [results |-> stopConnectModeResults(ConnectWorld, now)])
  /\ stroke' = [shape |-> NoStroke, sent |-> 0]
  /\ UNCHANGED << now, connectSessions >>

\* the frames the camera may deliver next: the next point of the stroke
\* being drawn, the first point of a new stroke, or a frame without a
\* pointing hand; after a frame that threw the hand is where it was
NextFrames ==
  IF stroke.shape # NoStroke /\ stroke.sent < stroke.shape.n
  THEN {[frame |-> StrokeFrame(stroke.shape, stroke.sent + 1),
         stroke |-> [stroke EXCEPT !.sent = @ + 1]]}
       \cup {[frame |-> f, stroke |-> [shape |-> NoStroke, sent |-> 0]] :
               f \in RestFrames}
  ELSE {[frame |-> StrokeFrame(s, 1), stroke |-> [shape |-> s, sent |-> 1]] :
          s \in IF stroke.shape = NoStroke THEN Strokes ELSE {}}
       \cup {[frame |-> f, stroke |-> [shape |-> NoStroke, sent |-> 0]] :
               f \in RestFrames}

\* the frame takes the pointing branch of processConnectHandResults
isPointingFrame(results) ==
  results.pointingGesture # NULL /\ results.pointingGesture.isPointing

\* the screen point the pointing branch hands to addDrawingPoint
screenPoint(results) ==
  [x |-> ((100 - results.pointingGesture.indexTip.x) * Window.innerWidth) \div 100,
   y |-> (results.pointingGesture.indexTip.y * Window.innerHeight) \div 100]

\* onHandResults -> onHandTrackingResults -> handleConnectModeHandResults
\* for one camera frame; a frame on which the debug overlay throws is not
\* delivered, and the TypeError of processConnectHandResults is caught by
\* the dispatcher
ConnectFrame ==
  /\ connectState.isActive
  /\ \E next \in NextFrames :
     \E debug \in (IF Malformed(next.frame) THEN BOOLEAN ELSE {TRUE}) :
     \E results \in {processHandResults(next.frame)} :
     \E dropped \in {drawDebugVisualizationThrows(next.frame, debug)} :
     \E threw \in {dropped \/ processConnectHandResultsThrows(ConnectWorld, results)} :
     \E c \in {IF dropped THEN ConnectWorld
               ELSE handleConnectModeHandResults(ConnectWorld, results, now)} :
       /\ TotalCircles(c.d.dataState.users) - TotalCircles(dataState.users)
            <= MaxAdds - dataOps.adds
       /\ Len(c.connectState.currentPath) <= MaxPathLength
       /\ SetConnect(c, ConnectEvent("frame", ConnectWorld, c,
                                     Malformed(next.frame), threw)
                          @@ [pointing |-> ~threw /\ isPointingFrame(results),
                              point |-> IF ~threw /\ isPointingFrame(results)
                                        THEN screenPoint(results) ELSE NULL])
       /\ stroke' = IF threw THEN stroke ELSE next.stroke
  /\ UNCHANGED << now, connectSessions >>

InitConnect ==
  /\ InitPrayerState
  /\ goddessMesh
  /\ stream = NoStream
  /\ InitDataIdle
  /\ InitConnectIdle
  /\ InitShellIdle
  /\ geom = NoGeom

NextConnect ==
  \/ InitConnectMode
  \/ LoadComplete
  \/ StartConnectMode
  \/ StopConnectMode
  \/ ConnectFrame

SpecConnect == InitConnect /\ [][NextConnect]_vars

\* ------------------------------------------------------------------------
\* The shell: the page after DOMContentLoaded, its buttons, its keyboard
\* shortcuts and its user input
\* ------------------------------------------------------------------------
ShellWorld ==
  [appState |-> appState, handTracking |-> handTracking,
   c |-> ConnectWorld, w |-> World]

UserInputs == {"", " ", "Alice", "User1"}

\* frames dispatched and not yet handled, imports through the shell, and
\* the circles of one owner StoredBy looks at
MaxInFlight == 2
BriefLength == 2
MaxShellImports == 1
MaxStoredCircles == 4

RoundStrokes == {s \in Strokes : s.name = "round"}

\* the first points of a stroke the finger gives up
BriefStrokes == {[s EXCEPT !.n = BriefLength] : s \in {s \in Strokes : s.name = "brief"}}

ShellImportFiles == {f \in ImportFiles : ~f.parses \/ f.json.circles[1].user = "Dana"}

KeyEvents ==
  [key : {"c", "p", "escape", "s"}, ctrlKey : BOOLEAN, input : BOOLEAN]

EscapeEvents == {e \in KeyEvents : e.key = "escape" /\ ~e.ctrlKey /\ ~e.input}

\* the controllers a handler of the shell started or stopped
ShellConnectEvent(s) ==
  IF connectState.isActive /\ ~s.c.connectState.isActive
  THEN ConnectEvent("stop", ConnectWorld, s.c, FALSE, FALSE)
         @@ [results |-> saveCirclesData(s.c)]
  ELSE NoConnectEvent

ShellPrayerEvent(s, ev) ==
  IF ~prayerState.isActive /\ s.w.prayerState.isActive
  THEN [op |-> "start", ended |-> hist.counted]
  ELSE IF prayerState.isActive /\ ~s.w.prayerState.isActive
       THEN [op |-> "stop", results |-> stopPrayerModeResults(World, now),
             wasPraying |-> prayerState.isPraying,
             cloud |-> prayerState.goddessPointCloud]
  ELSE IF ev.op = "deliver" /\ ev.mode = "pray"
       THEN FrameEvent(ev.frame, FALSE)
       ELSE [op |-> "other"]

\* the circles of users1 that users0 does not have, with their owners
StoredBy(users0, users1) ==
  { [owner |-> users1[i].userId, userId |-> users1[i].circles[k].userId] :
      << i, k >> \in
        { ik \in (DOMAIN users1) \X (1..MaxStoredCircles) :
            /\ ik[2] \in DOMAIN users1[ik[1]].circles
            /\ \A j \in DOMAIN users0 :
                 users0[j].userId = users1[ik[1]].userId
                   => users1[ik[1]].circles[ik[2]] \notin
                        { users0[j].circles[n] : n \in DOMAIN users0[j].circles } } }

\* the dispatched frames, those marked whose mode the handler stopped
MarkStale(inflight, s) ==
  [i \in DOMAIN inflight |->
     IF \/ /\ inflight[i].mode = "connect"
           /\ connectState.isActive /\ ~s.c.connectState.isActive
        \/ /\ inflight[i].mode = "pray"
           /\ prayerState.isActive /\ ~s.w.prayerState.isActive
     THEN [inflight[i] EXCEPT !.stale = TRUE]
     ELSE inflight[i]]

\* s is the shell after the handler, d0 the dataset the handler imported
\* (the dataset before the handler when it imported nothing)
SetShellWith(s, ev, strokeAfter, tasksAfter, d0, imports) ==
  /\ s.w.session <= MaxSessions
  /\ connectSessions' = connectSessions
       + (IF ~connectState.isActive /\ s.c.connectState.isActive THEN 1 ELSE 0)
  /\ connectSessions' <= MaxConnectSessions
  /\ TotalCircles(s.c.d.dataState.users) - TotalCircles(d0.dataState.users)
       <= MaxAdds - dataOps.adds
  /\ Len(s.c.connectState.currentPath) <= MaxPathLength
  /\ s.w.prayerState.prayerCount <= MaxPrayers
  /\ appState' = s.appState
  /\ handTracking' = s.handTracking
  /\ appEvent' = ev @@ [stored |-> StoredBy(d0.dataState.users,
                                            s.c.d.dataState.users),
                        userId |-> s.appState.currentUserId]
  /\ tasks' = [tasksAfter EXCEPT !.inflight = MarkStale(@, s)]
  /\ IF s.c = ConnectWorld
     THEN UNCHANGED << connectState, connectEvent, dataVars >>
     ELSE /\ connectState' = s.c.connectState
          /\ connectEvent' = ShellConnectEvent(s)
          /\ dataState' = s.c.d.dataState
          /\ loadPending' = s.c.d.loadPending
          /\ saveTimers' = s.c.d.saveTimers
          /\ dataEvent' = NoDataEvent
          /\ kept' = kept
          /\ dataOps' = [dataOps EXCEPT
               !.adds = @ + TotalCircles(s.c.d.dataState.users)
                          - TotalCircles(d0.dataState.users),
               !.imports = @ + imports]
  /\ IF s.w = World
     THEN UNCHANGED << prayerState, scene, rafQueue, timeouts, nextCloud,
                       session, lastEvent, hist >>
     ELSE SetWorldVars(s.w, ShellPrayerEvent(s, ev), FALSE)
  /\ stroke' = strokeAfter
  /\ UNCHANGED << now, goddessMesh, triggers, stream, geom, loader >>

SetShell(s, ev) ==
  SetShellWith(s, ev,
               IF connectState.isActive /\ ~s.c.connectState.isActive
               THEN [shape |-> NoStroke, sent |-> 0] ELSE stroke,
               tasks, DataWorld, 0)

\* DOMContentLoaded: initializeApplication with either outcome of
\* initHandTracking
InitializeApplication ==
  /\ ~appState.initialized
  /\ \E loaded \in BOOLEAN :
       SetShell(initializeApplication(ShellWorld, loaded),
                [op |-> "init", loaded |-> loaded])

\* a click on the Connect button
HandleConnectButton ==
  /\ appState.initialized
  /\ \E s \in {handleConnectButton(ShellWorld, now)} :
       SetShell(s, [op |-> "connectButton", mode |-> appState.mode])

\* a click on the Pray button
HandlePrayButton ==
  /\ appState.initialized
  /\ \E s \in {handlePrayButton(ShellWorld, now, goddessMesh)} :
       SetShell(s, [op |-> "prayButton", mode |-> appState.mode])

\* a keydown event on the document
HandleKeysFrom(events) ==
  /\ appState.initialized
  /\ \E e \in events :
     \E s \in {handleKeyboardShortcuts(ShellWorld, e, now, goddessMesh)} :
       SetShell(s, [op |-> "key", e |-> e, mode |-> appState.mode])

HandleKeyboardShortcuts == HandleKeysFrom(KeyEvents)

\* the Escape key
HandleEscape == HandleKeysFrom(EscapeEvents)

HandleUserIdFrom(values) ==
  /\ appState.initialized
  /\ \E value \in values :
       SetShell(handleUserIdChange(ShellWorld, value),
                [op |-> "userId", value |-> value])

\* a change event of the user input
HandleUserIdChange == HandleUserIdFrom(UserInputs)

\* a user id typed into the input
HandleUserIdTyped == HandleUserIdFrom(UserInputs \ {"", " "})

\* the promise of camera.start() is fulfilled or rejected
CameraStartSettles ==
  /\ handTracking.starting
  /\ \E ok \in BOOLEAN :
       SetShell(cameraStartSettles(ShellWorld, ok),
                [op |-> "cameraStart", ok |-> ok])

\* what the camera may show next: in connect mode the next point of the
\* stroke, the first point of a new one or a hand at rest, in pray mode two
\* hands or none
ShellNextFrames(strokes) ==
  IF appState.mode = "connect"
  THEN IF stroke.shape # NoStroke /\ stroke.sent < stroke.shape.n
       THEN {[frame |-> StrokeFrame(stroke.shape, stroke.sent + 1),
              stroke |-> [stroke EXCEPT !.sent = @ + 1]],
             [frame |-> NoHands, stroke |-> [shape |-> NoStroke, sent |-> 0]]}
       ELSE {[frame |-> StrokeFrame(sh, 1), stroke |-> [shape |-> sh, sent |-> 1]] :
               sh \in IF stroke.shape = NoStroke THEN strokes ELSE {}}
            \cup {[frame |-> NoHands, stroke |-> [shape |-> NoStroke, sent |-> 0]]}
  ELSE {[frame |-> f, stroke |-> stroke] : f \in {NoHands, TwoHandsJoined}}

CameraFrameOf(strokes) ==
  /\ appState.initialized
  /\ handTracking.isActive
  /\ Len(tasks.inflight) < MaxInFlight
  /\ \E next \in ShellNextFrames(strokes) :
       SetShellWith(ShellWorld, [op |-> "camera", frame |-> next.frame],
                    next.stroke,
                    [tasks EXCEPT !.inflight =
                       onHandResults(ShellWorld, @, next.frame)],
                    DataWorld, 0)

\* the hand tracker reports a camera frame; the finger starts short strokes
CameraFrame == CameraFrameOf(BriefStrokes)

\* the same, the finger drawing round strokes
CameraStroke == CameraFrameOf(RoundStrokes)

\* the then-callback of the oldest dispatched frame runs
DeliverFrame ==
  /\ tasks.inflight # << >>
  /\ \E dispatched \in {Head(tasks.inflight)} :
     \E s \in {deliverResults(ShellWorld, dispatched, now)} :
       SetShellWith(s, [op |-> "deliver", mode |-> dispatched.mode,
                        frame |-> dispatched.frame,
                        modeNow |-> appState.mode,
                        stale |-> dispatched.stale,
                        active |-> IF dispatched.mode = "connect"
                                   THEN connectState.isActive
                                   ELSE prayerState.isActive,
                        changed |-> s # ShellWorld],
                    stroke, [tasks EXCEPT !.inflight = Tail(@)], DataWorld, 0)

\* requestAnimationFrame runs mainLoop
MainLoop ==
  /\ appState.initialized
  /\ SetShell(mainLoop(ShellWorld),
              [op |-> "tick", mode |-> appState.mode,
               pending |-> Len(tasks.inflight)])

\* the user picks a file in the import dialog and answers confirm()
HandleFileImport ==
  /\ appState.initialized
  /\ dataOps.imports < MaxShellImports
  /\ \E file \in ShellImportFiles, shouldReplace \in BOOLEAN :
     \E rands \in {[n \in 1..MaxFileCircles |-> RandomSuffixes[n]]} :
     \E s \in {handleFileImport(ShellWorld, file, shouldReplace, now, rands)} :
       SetShellWith(s, [op |-> "import", mode |-> appState.mode,
                        scheduled |-> handleFileImportTimer(ShellWorld, file)],
                    IF connectState.isActive /\ ~s.c.connectState.isActive
                    THEN [shape |-> NoStroke, sent |-> 0] ELSE stroke,
                    [tasks EXCEPT !.importTimers =
                       @ + (IF handleFileImportTimer(ShellWorld, file)
                            THEN 1 ELSE 0)],
                    loadDataFromFile(DataWorld, file, shouldReplace, now, rands),
                    1)

\* the 500 ms timer of handleFileImport fires
ImportTimer ==
  /\ tasks.importTimers > 0
  /\ \E s \in {importTimerCallback(ShellWorld, now)} :
       SetShellWith(s, [op |-> "importTimer", mode |-> appState.mode,
                        wasActive |-> connectState.isActive,
                        started |-> s.c.connectState.isActive,
                        changed |-> s # ShellWorld],
                    stroke, [tasks EXCEPT !.importTimers = @ - 1], DataWorld, 0)

InitShell ==
  /\ InitPrayerState
  /\ goddessMesh
  /\ stream = NoStream
  /\ InitDataIdle
  /\ InitConnectIdle
  /\ InitShellIdle
  /\ geom = NoGeom

NextShell ==
  \/ InitializeApplication
  \/ LoadComplete
  \/ HandleConnectButton
  \/ HandlePrayButton
  \/ HandleKeyboardShortcuts
  \/ HandleUserIdChange

SpecShell == InitShell /\ [][NextShell]_vars

\* the shell with the frames it dispatches, the main loop and the imports
NextShellAsync ==
  \/ InitializeApplication
  \/ HandleConnectButton
  \/ HandlePrayButton
  \/ HandleEscape
  \/ CameraStartSettles
  \/ CameraFrame
  \/ DeliverFrame
  \/ MainLoop
  \/ HandleFileImport
  \/ ImportTimer

SpecShellAsync == InitShell /\ [][NextShellAsync]_vars

\* the shell with a user who types user ids and draws round strokes
NextShellUser ==
  \/ InitializeApplication
  \/ HandleConnectButton
  \/ HandleUserIdTyped
  \/ CameraStroke
  \/ DeliverFrame

SpecShellUser == InitShell /\ [][NextShellUser]_vars

\* ------------------------------------------------------------------------
\* The intersection engine on pairs of circles
\* ------------------------------------------------------------------------
GeomCircles ==
  { [x |-> x, z |-> z, radius |-> r] :
      x \in {0, 150, 300}, z \in {0, 200}, r \in {100, 150, 200, 300} }

InitGeom ==
  /\ InitPrayerState
  /\ goddessMesh
  /\ stream = NoStream
  /\ InitDataIdle
  /\ InitConnectIdle
  /\ InitShellIdle
  /\ geom \in [set : {TRUE}, circle1 : GeomCircles, circle2 : GeomCircles,
               done : {FALSE}, points : {<< >>}]

CalculateCircleIntersection ==
  /\ geom.set /\ ~geom.done
  /\ geom' = [geom EXCEPT !.done = TRUE,
                          !.points = calculateCircleIntersection(geom.circle1,
                                                                 geom.circle2)]
  /\ UNCHANGED << prayerVars, stream, dataVars, connectVars, shellVars >>

NextGeom == CalculateCircleIntersection

SpecGeom == InitGeom /\ [][NextGeom]_vars

\* The intersection engine on circles with radii of one tenth as well: the
\* smallest radius detectCircle gives a circle is 0.1
TenthCircles ==
  { [x |-> 0, z |-> 0, radius |-> 10], [x |-> 20, z |-> 0, radius |-> 10] }

InitGeomTenths ==
  /\ InitPrayerState
  /\ goddessMesh
  /\ stream = NoStream
  /\ InitDataIdle
  /\ InitConnectIdle
  /\ InitShellIdle
  /\ geom \in [set : {TRUE},
               circle1 : GeomCircles \cup TenthCircles,
               circle2 : GeomCircles \cup TenthCircles,
               done : {FALSE}, points : {<< >>}]

SpecGeomTenths == InitGeomTenths /\ [][NextGeom]_vars

\* ------------------------------------------------------------------------
\* Properties of the activation machine
\* ------------------------------------------------------------------------

\* C1: within one contiguous run of true frames at most one activation
\* occurs, whatever timers or manual triggers fire during the run.
C1_OneActivationPerRun == hist.runActivations <= 1

\* C2 (as claimed): a gesture-driven activation never comes less than
\* cooldownTime after the session's last deactivation.
C2_CooldownSinceDeactivation ==
  (lastEvent.op = "frame" /\ hist.activated /\ hist.sinceDeactivation >= 0)
    => hist.sinceDeactivation >= CooldownTime

\* C2 (amended): a gesture-driven activation never comes less than
\* cooldownTime after the session's previous activation.
C2_CooldownSinceActivation ==
  (lastEvent.op = "frame" /\ hist.activated /\ hist.sinceActivation >= 0)
    => hist.sinceActivation >= CooldownTime

C2_Witness ==
  /\ lastEvent.op = "frame" /\ hist.activated
  /\ hist.sinceActivation >= CooldownTime
  /\ hist.sinceDeactivation >= 0 /\ hist.sinceDeactivation < CooldownTime

\* C3 (as claimed): a run of n true frames, one every interval ms, activates
\* iff n * interval >= activationTime.
C3_ActivatesIffRunCoversHold ==
  (stream.n > 0 /\ stream.pos = StreamLength)
    => (prayerState.prayerCount >= 1 <=> stream.n * stream.interval >= ActivationTime)

\* C3 (amended): the run activates iff the time from its first to its last
\* frame, (n - 1) * interval, is at least activationTime.
C3_ActivatesIffSpanCoversHold ==
  (stream.n > 0 /\ stream.pos = StreamLength)
    => (prayerState.prayerCount >= 1 <=>
          (stream.n - 1) * stream.interval >= ActivationTime)

C3_Witness ==
  /\ stream.n > 0 /\ stream.pos = StreamLength
  /\ prayerState.prayerCount = 1
  /\ (stream.n - 1) * stream.interval = ActivationTime

\* C4: after a frame whose prayer fact is false or absent the session is
\* Idle: not praying, no gesture held, hold timer cleared, rotations stopped
\* and effects removed.
C4_InstantDeactivation ==
  (lastEvent.op = "frame" /\ prayerState.isActive /\ ~lastEvent.isPrayerGesture)
    => /\ ~prayerState.isPraying
       /\ ~prayerState.gestureDetected
       /\ prayerState.gestureStartTime = 0
       /\ ~prayerState.glowEffect /\ ~prayerState.sparkleSystem
       /\ ~prayerState.modelRotationInterval
       /\ ~prayerState.pointCloudRotationInterval

C4_Witness ==
  /\ lastEvent.op = "frame" /\ ~lastEvent.isPrayerGesture
  /\ prayerState.isActive /\ hist.deactivated

\* C7: a frame with a hand of fewer than 21 landmarks is treated as a frame
\* with no hands: no prayer gesture, and the session is Idle after it.
C7_MalformedIsNoHands ==
  (lastEvent.op \in {"frame", "dropped"} /\ lastEvent.malformed
     /\ prayerState.isActive)
    => /\ ~lastEvent.threw
       /\ ~lastEvent.isPrayerGesture
       /\ ~prayerState.isPraying
       /\ ~prayerState.gestureDetected

\* C8: no callback scheduled in one prayer session changes the prayer state
\* of a later session.
C8_NoLeakAcrossSessions == ~hist.staleChange


\* C17: within a session prayerCount is the number of activations since
\* startPrayerMode, and stopPrayerMode returns that number as totalPrayers
\* and leaves the counter at 0.
C17_CountIsActivations ==
  /\ prayerState.isActive => prayerState.prayerCount = hist.activations
  /\ lastEvent.op = "stop" =>
       /\ lastEvent.results.totalPrayers = hist.counted
       /\ prayerState.prayerCount = 0

C17_Witness ==
  /\ lastEvent.op = "stop"
  /\ lastEvent.results.totalPrayers >= 2
  /\ hist.counted >= 2

\* C18: stopPrayerMode during a prayer ends the prayer first, as endPrayer
\* does (the fade of the point cloud is started), and after it the state is
\* not praying, not active, without rotation intervals and effects.
C18_StopEndsPrayerFirst ==
  (lastEvent.op = "stop" /\ lastEvent.wasPraying)
    => /\ hist.deactivated
       /\ ~prayerState.isPraying
       /\ ~prayerState.isActive
       /\ ~prayerState.modelRotationInterval
       /\ ~prayerState.pointCloudRotationInterval
       /\ ~prayerState.glowEffect /\ ~prayerState.sparkleSystem
       /\ lastEvent.results.sessionActive = FALSE
       /\ lastEvent.cloud # 0 =>
            \E i \in DOMAIN rafQueue :
              rafQueue[i] = [startTime |-> now, session |-> session,
                             cloud |-> lastEvent.cloud]

C18_Witness ==
  /\ lastEvent.op = "stop" /\ lastEvent.wasPraying
  /\ lastEvent.cloud # 0

\* C28: a startPrayerMode that follows initPrayerMode or a stopPrayerMode
\* finds the activation machine idle with fresh counters: not praying, no
\* gesture held, gestureStartTime, lastActivationTime and prayerCount all 0.
C28_StartFindsFreshCounters ==
  lastEvent.op = "start"
    => /\ prayerState.isActive
       /\ ~prayerState.isPraying
       /\ ~prayerState.gestureDetected
       /\ prayerState.gestureStartTime = 0
       /\ prayerState.lastActivationTime = 0
       /\ prayerState.prayerCount = 0

\* a session starts after the stop of a session that counted a prayer
C28_Witness ==
  /\ lastEvent.op = "start"
  /\ lastEvent.ended >= 1
  /\ session >= 2

\* the gesture is held, no prayer is active, and at the time now the hold
\* has lasted activationTime
HeldLongEnough ==
  /\ prayerState.isActive
  /\ prayerState.gestureDetected
  /\ ~prayerState.isPraying
  /\ now - prayerState.gestureStartTime >= ActivationTime

\* C26: on a true frame that finds the hold long enough but the cooldown
\* not elapsed, the session keeps holding with the same hold-start time; on
\* a true frame that finds both gates open, the prayer is activated.
C26_GatesIndependent ==
  [][(lastEvent'.op = "frame" /\ lastEvent'.isPrayerGesture /\ HeldLongEnough)
       => IF now - prayerState.lastActivationTime < CooldownTime
          THEN /\ prayerState'.gestureDetected
               /\ prayerState'.gestureStartTime = prayerState.gestureStartTime
               /\ ~prayerState'.isPraying
               /\ prayerState'.prayerCount = prayerState.prayerCount
          ELSE /\ prayerState'.isPraying
               /\ prayerState'.gestureStartTime = prayerState.gestureStartTime
               /\ prayerState'.prayerCount = prayerState.prayerCount + 1
               /\ prayerState'.lastActivationTime = now]_vars

\* a true frame has just found the hold long enough and the cooldown running
C26_Witness ==
  /\ lastEvent.op = "frame" /\ lastEvent.isPrayerGesture
  /\ HeldLongEnough
  /\ now - prayerState.lastActivationTime < CooldownTime

\* C27: the first true frame after a false frame starts a new hold:
\* gestureStartTime becomes that frame's time.
C27_TrueFrameRestartsHold ==
  [][(lastEvent'.op = "frame" /\ lastEvent'.isPrayerGesture /\ hist.afterFalse)
       => /\ prayerState'.gestureDetected
          /\ prayerState'.gestureStartTime = now]_vars

\* ------------------------------------------------------------------------
\* Properties of the dataset and of the intersection engine
\* ------------------------------------------------------------------------

\* C5: a circle addCircleData returned stays in its owner's collection,
\* unchanged, until clearUserData for the owner, clearAllData or a
\* replace-import, whenever the initial load completes.
C5_AddedCirclesPersist ==
  \A k \in kept :
    \E i \in DOMAIN UserCircles(dataState.users, k.owner) :
      UserCircles(dataState.users, k.owner)[i] = k.circle

GeomD2 ==
  (geom.circle2.x - geom.circle1.x) * (geom.circle2.x - geom.circle1.x)
    + (geom.circle2.z - geom.circle1.z) * (geom.circle2.z - geom.circle1.z)

GeomSum2 ==
  (geom.circle1.radius + geom.circle2.radius)
    * (geom.circle1.radius + geom.circle2.radius)

GeomDiff2 ==
  (geom.circle1.radius - geom.circle2.radius)
    * (geom.circle1.radius - geom.circle2.radius)

OnCircle(point, circle) ==
  /\ "nan" \notin DOMAIN point
  /\ LET dx == point.x - 10 * circle.x
         dz == point.z - 10 * circle.z
     IN /\ dx * dx + dz * dz >= (10 * circle.radius - 2) * (10 * circle.radius - 2)
        /\ dx * dx + dz * dz <= (10 * circle.radius + 2) * (10 * circle.radius + 2)

\* C25: for Bob's new circle (3, 0, 2) against Alice's (0, 0, 2) the two
\* points have x = 1.5 and are mirror images across the line of the centres,
\* and the two points of every intersecting pair are on both circles.
C25_PointsOnBothCircles ==
  (geom.set /\ geom.done)
    => /\ (/\ geom.circle1 = [x |-> 300, z |-> 0, radius |-> 200]
            /\ geom.circle2 = [x |-> 0, z |-> 0, radius |-> 200])
            => /\ Len(geom.points) = 2
               /\ geom.points[1].x = 1500 /\ geom.points[2].x = 1500
               /\ geom.points[1].z = -geom.points[2].z
               /\ geom.points[1].z # 0
       /\ \A k \in DOMAIN geom.points :
            /\ OnCircle(geom.points[k], geom.circle1)
            /\ OnCircle(geom.points[k], geom.circle2)

\* two circles agree within the merge tolerance in x, z and radius
Near(a, b) ==
  /\ Abs(a.x - b.x) < MergeTolerance
  /\ Abs(a.z - b.z) < MergeTolerance
  /\ Abs(a.radius - b.radius) < MergeTolerance

Incoming(userId) ==
  SelectSeq(dataEvent.circles, LAMBDA circle : circle.user = userId)

\* C9 (as claimed): after a merge import, a circle the batch holds twice for
\* an owner, or once when the owner already stored it, is stored exactly
\* once for that owner, whether or not the owner existed.
C9_MergeStoresOne ==
  dataEvent.op = "merge" =>
    \A k \in DOMAIN dataEvent.circles :
      LET nc == dataEvent.circles[k]
          twin == \E j \in DOMAIN dataEvent.circles :
                    /\ j # k
                    /\ dataEvent.circles[j].user = nc.user
                    /\ Near(dataEvent.circles[j], nc)
          old == UserCircles(dataEvent.before, nc.user)
          new == UserCircles(dataState.users, nc.user)
      IN (twin \/ \E i \in DOMAIN old : Near(old[i], nc))
           => Cardinality({i \in DOMAIN new : Near(new[i], nc)}) = 1

\* C9 (amended): for an owner the dataset already had, the merge keeps the
\* stored circles, appends no circle within the tolerance of one stored
\* before it, and leaves every incoming circle within the tolerance of a
\* stored one; a new owner's circles are stored as the batch gives them.
C9_MergeDedupesExistingOwners ==
  dataEvent.op = "merge" =>
    \A k \in DOMAIN dataEvent.circles :
      LET userId == dataEvent.circles[k].user
          old == UserCircles(dataEvent.before, userId)
          new == UserCircles(dataState.users, userId)
          incoming == Incoming(userId)
      IN IF UserIndex(dataEvent.before, userId) = 0
         THEN /\ Len(new) = Len(incoming)
              /\ \A i \in DOMAIN new :
                   /\ new[i].x = incoming[i].x
                   /\ new[i].z = incoming[i].z
                   /\ new[i].radius = incoming[i].radius
         ELSE /\ Len(new) >= Len(old)
              /\ \A i \in DOMAIN old : new[i] = old[i]
              /\ \A i \in (Len(old) + 1)..Len(new) :
                   \A j \in 1..(i - 1) : ~Near(new[j], new[i])
              /\ \A n \in DOMAIN incoming :
                   \E i \in DOMAIN new : Near(new[i], incoming[n])

C9_Witness ==
  /\ dataEvent.op = "merge"
  /\ \E k \in DOMAIN dataEvent.circles :
       LET userId == dataEvent.circles[k].user
           old == UserCircles(dataEvent.before, userId)
           new == UserCircles(dataState.users, userId)
       IN /\ UserIndex(dataEvent.before, userId) # 0
          /\ Len(new) > Len(old)
          /\ Len(new) < Len(old) + Len(Incoming(userId))

\* the circles of the owners other than the current user, owner after owner
\* in the order the owners entered the dataset, each owner's circles in the
\* order they were stored
OthersInInsertionOrder ==
  LET RECURSIVE Flat(_)
      Flat(i) ==
        IF i > Len(dataState.users) THEN << >>
        ELSE (IF dataState.users[i].userId = dataState.currentUser THEN << >>
              ELSE dataState.users[i].circles) \o Flat(i + 1)
  IN Flat(1)

\* C15: getAllOtherUsersCircles returns exactly the circles of the owners
\* other than the current user, each owner's in insertion order and the
\* owners in the order of their first appearance in the dataset.
C15_OthersInInsertionOrder ==
  dataEvent.op = "others" => dataEvent.circles = OthersInInsertionOrder

\* C19: after addCircleData or a merge import the dirty flag is set, and a
\* step clears the flag only if it is a save whose setItem succeeded.
C19_DirtyUntilSaved ==
  [][/\ dataEvent'.op \in {"add", "merge"} => dataState'.hasUnsavedChanges
     /\ (dataState.hasUnsavedChanges /\ ~dataState'.hasUnsavedChanges)
          => (dataEvent'.op = "save" /\ dataEvent'.ok)]_vars

\* a save failed after a circle was added, and the flag is still set
C19_Witness ==
  /\ dataEvent.op = "save" /\ ~dataEvent.ok
  /\ kept # {}
  /\ dataState.hasUnsavedChanges

C20_LoadFallsBackToSample ==
  (/\ dataEvent.op = "load"
   /\ (~dataEvent.response.ok \/ ~dataEvent.response.json.hasCircles))
    => /\ dataState.users = createSampleCircleData
       /\ ~dataState.loadedFromFile
       /\ ~loadPending

C20_Witness ==
  /\ dataEvent.op = "load"
  /\ dataEvent.response.ok /\ ~dataEvent.response.json.hasCircles
  /\ dataState.users = createSampleCircleData

\* C23: addCircleData appends one circle to the current user's collection
\* and leaves every other owner's collection, and the earlier circles of the
\* current user, as they were.
C23_AddTouchesOnlyCurrentUser ==
  dataEvent.op = "add" =>
    /\ \A i \in DOMAIN dataEvent.before :
         dataEvent.before[i].userId # dataState.currentUser
           => \E j \in DOMAIN dataState.users :
                dataState.users[j] = dataEvent.before[i]
    /\ \A j \in DOMAIN dataState.users :
         dataState.users[j].userId # dataState.currentUser
           => \E i \in DOMAIN dataEvent.before :
                dataEvent.before[i] = dataState.users[j]
    /\ UserCircles(dataState.users, dataState.currentUser)
         = Append(UserCircles(dataEvent.before, dataState.currentUser),
                  dataEvent.circle)
    /\ dataEvent.circle.userId = dataState.currentUser

\* a circle added for a user who had circles, beside two other owners
C23_Witness ==
  /\ dataEvent.op = "add"
  /\ Len(dataEvent.before) >= 3
  /\ Len(UserCircles(dataEvent.before, dataState.currentUser)) > 0
  /\ dataEvent.before[1].userId # dataState.currentUser

\* the circles of the other users that meet the circle in two points, in the
\* order of getAllOtherUsersCircles
MeetingOthers(circle) ==
  SelectSeq(getAllOtherUsersCircles(DataWorld),
            LAMBDA other : Len(calculateCircleIntersection(circle, other)) = 2)

\* C16: findCircleIntersections returns one intersection for each circle of
\* another user that meets the new circle in exactly two points, in the order
\* of getAllOtherUsersCircles, and nothing else; none is with a circle of
\* the current user.
C16_IntersectionsWithOthersOnly ==
  dataEvent.op = "intersections" =>
    /\ Len(dataEvent.result) = Len(MeetingOthers(dataEvent.circle))
    /\ \A k \in DOMAIN dataEvent.result :
         /\ dataEvent.result[k].circle1 = dataEvent.circle
         /\ dataEvent.result[k].circle2 = MeetingOthers(dataEvent.circle)[k]
         /\ dataEvent.result[k].circle2.userId # dataState.currentUser
         /\ Len(dataEvent.result[k].points) = 2
         /\ dataEvent.result[k].points =
              calculateCircleIntersection(dataEvent.circle,
                                          dataEvent.result[k].circle2)

\* some circles of other users meet the new circle, some do not, and the
\* current user has an older circle that meets it
C16_Witness ==
  /\ dataEvent.op = "intersections"
  /\ Len(dataEvent.result) > 0
  /\ Len(dataEvent.result) < Len(getAllOtherUsersCircles(DataWorld))
  /\ \E i \in DOMAIN UserCircles(dataState.users, dataState.currentUser) :
       Len(calculateCircleIntersection(
             dataEvent.circle,
             UserCircles(dataState.users, dataState.currentUser)[i])) = 2

\* C12: within one owner's collection no two circles share an id.
C12_UniqueIds ==
  \A u \in DOMAIN dataState.users :
    \A i, j \in DOMAIN dataState.users[u].circles :
      i # j => dataState.users[u].circles[i].id # dataState.users[u].circles[j].id

\* ------------------------------------------------------------------------
\* Properties of the stroke recognizer
\* ------------------------------------------------------------------------
\* the bounding box of the path has width / height outside [0.7, 1.4]
AspectOutside(path) ==
  LET width == PathMax(path, "x") - PathMin(path, "x")
      height == PathMax(path, "y") - PathMin(path, "y")
  IN height = 0 \/ 10 * width < 7 * height \/ 10 * width > 14 * height

C13_StopDiscardsStroke ==
  (connectEvent.op = "stop" /\ connectEvent.wasDrawing)
    => connectEvent.added = 0 /\ connectEvent.stars = 0

\* C13 (amended): stopConnectMode with a stroke in progress finishes the
\* stroke as a frame without a pointing hand does: a path of fewer than
\* minCirclePoints points is dropped, a longer one is stored as a circle.
C13_StopFinishesStroke ==
  (connectEvent.op = "stop" /\ connectEvent.wasDrawing)
    => /\ ~connectState.isDrawing
       /\ connectEvent.added =
            IF Len(connectState.currentPath) >= MinCirclePoints THEN 1 ELSE 0
       /\ (connectEvent.added = 0 => connectEvent.stars = 0)

C13_Witness ==
  /\ connectEvent.op = "stop" /\ connectEvent.wasDrawing
  /\ connectEvent.added = 1

\* C14: the userCircles count of the summary stopConnectMode returns is the
\* number of circles the dataset stores for the current user.
C14_SummaryMatchesDataset ==
  connectEvent.op = "stop"
    => connectEvent.results.userCircles =
         Len(UserCircles(dataState.users, connectState.currentUserId))

\* the circles in the dataset that addCircleData stored
StoredDrawn ==
  LET all == UNION {{dataState.users[i].circles[k] :
                       k \in DOMAIN dataState.users[i].circles} :
                    i \in DOMAIN dataState.users}
  IN {circle \in all : circle.source = "User drawn"}

\* x and z lie on the scene floor as detectCircle spreads it
OnFloor(c) ==
  /\ 2 * Abs(c.x) <= BoundsWidth * SpreadFactor * 100
  /\ 2 * Abs(c.z) <= BoundsHeight * SpreadFactor * 100

\* C11 (as claimed): every circle stored from a stroke has a radius within
\* [0.5, 3] and finite x and z.
C11_RadiusWithinDefaults ==
  \A c \in StoredDrawn : c.radius >= 50 /\ c.radius <= 300 /\ OnFloor(c)

\* C11 (amended): every circle stored from a stroke has a radius within
\* [0.1, 5], the clamp of detectCircle, and x and z on the scene floor.
C11_RadiusWithinClamp ==
  \A c \in StoredDrawn :
    /\ 100 * c.radius >= MinFinalRadius
    /\ 100 * c.radius <= MaxFinalRadius
    /\ OnFloor(c)

C11_Witness ==
  /\ connectEvent.op = "frame" /\ connectEvent.added = 1
  /\ \E c \in StoredDrawn : 100 * c.radius = MaxFinalRadius

\* C24: a stroke that ends with fewer than minCirclePoints points is
\* dropped: no circle is stored, no star is created, the handler does not
\* throw, and no stroke is in progress afterwards.
C24_ShortStrokeDiscarded ==
  (/\ connectEvent.op \in {"frame", "stop"}
   /\ connectEvent.finished
   /\ Len(connectState.currentPath) < MinCirclePoints)
    => /\ connectEvent.added = 0
       /\ connectEvent.stars = 0
       /\ ~connectEvent.threw
       /\ ~connectState.isDrawing
       /\ connectState.activeDrawingLines = 0

\* a stroke of 3..9 points, which detectCircle would take, ended by a frame
C24_Witness ==
  /\ connectEvent.op = "frame"
  /\ connectEvent.finished
  /\ Len(connectState.currentPath) >= MinDetectPoints
  /\ Len(connectState.currentPath) < MinCirclePoints

\* the step is a handler of the connect controller: the data manager ran
\* only inside it
ConnectHandlerStep == dataEvent' = NoDataEvent

\* what a frame does to the stroke, given the stroke before it: the first
\* pointing frame starts a path of exactly its point, a further pointing
\* frame appends exactly its point, no pointing frame stores or classifies,
\* and a frame without a pointing hand outside a stroke changes neither the
\* stroke nor the dataset
StrokeStep ==
  (ConnectHandlerStep /\ connectEvent'.op = "frame" /\ ~connectEvent'.threw)
    => /\ (connectEvent'.pointing /\ ~connectState.isDrawing)
            => /\ connectState'.isDrawing
               /\ connectState'.currentPath = << connectEvent'.point >>
       /\ (connectEvent'.pointing /\ connectState.isDrawing)
            => /\ connectState'.isDrawing
               /\ connectState'.currentPath
                    = Append(connectState.currentPath, connectEvent'.point)
       /\ connectEvent'.pointing
            => /\ ~connectEvent'.classified
               /\ connectEvent'.added = 0 /\ connectEvent'.stars = 0
       /\ (~connectEvent'.pointing /\ ~connectState.isDrawing)
            => /\ ~connectState'.isDrawing
               /\ connectState'.currentPath = connectState.currentPath
               /\ ~connectEvent'.classified
               /\ dataState' = dataState
               /\ connectState'.stars = connectState.stars
       /\ (~connectEvent'.pointing /\ connectState.isDrawing)
            => ~connectState'.isDrawing

\* C29 (as claimed): the recognizer cycles NotDrawing -> Drawing ->
\* NotDrawing frame by frame, and detectCircle runs only on the first frame
\* without a pointing hand after a stroke.
C29_ClassifiedOnlyByFrame ==
  [][/\ StrokeStep
     /\ (/\ ConnectHandlerStep
         /\ connectEvent'.op \in {"frame", "stop"}
         /\ connectEvent'.classified)
          => /\ connectEvent'.op = "frame" /\ ~connectEvent'.pointing
             /\ connectState.isDrawing /\ ~connectState'.isDrawing]_vars

\* C29 (amended): the same cycle, and detectCircle runs only on the step
\* that ends a stroke: the first frame without a pointing hand after it, or
\* the stopConnectMode that finds it in progress.
C29_ClassifiedOnlyAtStrokeEnd ==
  [][/\ StrokeStep
     /\ (/\ ConnectHandlerStep
         /\ connectEvent'.op \in {"frame", "stop"}
         /\ connectEvent'.classified)
          => /\ \/ connectEvent'.op = "frame" /\ ~connectEvent'.pointing
                \/ connectEvent'.op = "stop"
             /\ connectState.isDrawing /\ ~connectState'.isDrawing]_vars

\* a pointing frame has extended a stroke to ten points, the length
\* finishDrawing classifies
C29_Witness ==
  /\ connectEvent.op = "frame" /\ connectEvent.pointing
  /\ connectEvent.wasDrawing
  /\ connectState.isDrawing
  /\ Len(connectState.currentPath) >= MinCirclePoints

\* the intersections of the circle stored last with the dataset as stored
StoredIntersections == findCircleIntersections(DataWorld, addedCircle(DataWorld))

\* C30: a handler that ends a stroke which is classified as a circle stores
\* the circle and creates one star for every point of the intersections of
\* the stored circle, two for every intersecting pair; when the stroke is
\* too short to be classified or detectCircle returns nothing, no circle is
\* stored and no star is created.
C30_StoreThenStarPerPoint ==
  (/\ dataEvent = NoDataEvent
   /\ connectEvent.op \in {"frame", "stop"}
   /\ connectEvent.finished)
    => IF \/ ~connectEvent.classified
          \/ detectCircle(connectState.currentPath,
                          connectState.currentUserId) = NULL
       THEN connectEvent.added = 0 /\ connectEvent.stars = 0
       ELSE /\ connectEvent.added = 1
            /\ \E intersections \in {StoredIntersections} :
                 /\ connectEvent.stars = countPoints(intersections, 1)
                 /\ connectEvent.stars = 2 * Len(intersections)

\* a frame ended a stroke whose circle meets two circles of other users
C30_Witness ==
  /\ connectEvent.op = "frame" /\ connectEvent.classified
  /\ connectEvent.added = 1
  /\ connectEvent.stars >= 4

\* C22: while hand tracking is not ready the Connect and Pray buttons and
\* the C and P keys leave the mode at 'ready' and start neither a
\* controller nor the camera, and the user input still works.
C22_NoModeWithoutHandTracking ==
  /\ (appState.initialized /\ ~appState.handTrackingReady)
       => /\ appState.mode = "ready"
          /\ ~connectState.isActive
          /\ ~connectState.cursor.isActive
          /\ ~prayerState.isActive
          /\ ~handTracking.isActive
          /\ ~handTracking.running
          /\ session = 0
          /\ connectSessions = 0
  /\ appEvent.op = "userId"
       => appState.currentUserId
            = IF Trim(appEvent.value) = "" THEN "User1" ELSE Trim(appEvent.value)

\* without hand tracking, the Pray button or the P key was pressed after
\* the user had changed the user id and the initial load had settled
C22_Witness ==
  /\ appState.initialized /\ ~appState.handTrackingReady
  /\ \/ appEvent.op = "prayButton"
     \/ appEvent.op = "key" /\ appEvent.e.key = "p"
                            /\ ~appEvent.e.ctrlKey /\ ~appEvent.e.input
  /\ appState.currentUserId = "Alice"
  /\ ~loadPending

\* C37: every circle stored under an owner carries that owner's user id.
C37_CirclesTaggedWithOwner ==
  \A i \in DOMAIN dataState.users :
    \A k \in DOMAIN dataState.users[i].circles :
      dataState.users[i].circles[k].userId = dataState.users[i].userId

\* a dataset of several owners that took a drawn circle and an import
C37_Witness ==
  /\ dataOps.adds >= 1 /\ dataOps.imports >= 1
  /\ Len(dataState.users) >= 2
  /\ \A i \in DOMAIN dataState.users : Len(dataState.users[i].circles) >= 1

\* C39: merging the batch that was merged just before appends nothing: the
\* dataset after the second merge is the dataset after the first.
C39_MergeTwiceIsMergeOnce ==
  (dataEvent.op = "merge" /\ dataEvent.repeated)
    => dataState.users = dataEvent.before

\* the batch merged twice in a row had added a circle to an owner the
\* dataset already had and had brought a new owner
C39_Witness ==
  /\ dataEvent.op = "merge" /\ dataEvent.repeated
  /\ \E k \in DOMAIN dataEvent.circles :
       \E i \in DOMAIN dataState.users :
         /\ dataState.users[i].userId = dataEvent.circles[k].user
         /\ \E n \in DOMAIN dataState.users[i].circles :
              dataState.users[i].circles[n].id.merged

\* C34: once the autosave interval runs, a dataset with unsaved changes
\* eventually has none.
C34_DirtyEventuallySaved ==
  (dataState.autoSaveInterval /\ dataState.hasUnsavedChanges)
    ~> ~dataState.hasUnsavedChanges


\* C32: every point cloud in the scene is the cloud of the current or the
\* last prayer, and the cloud of a prayer stays in the scene as long as that
\* prayer lasts: no fade loop of an earlier prayer removes it, and no cloud
\* is left behind in the scene.
C32_CloudLivesWithItsPrayer ==
  /\ scene \subseteq {prayerState.goddessPointCloud}
  /\ (prayerState.isPraying /\ prayerState.originalVertices)
       => prayerState.goddessPointCloud \in scene

\* ------------------------------------------------------------------------
\* Model loading: loadModels and the callbacks of the loaders and the timer
\* ------------------------------------------------------------------------
LoaderEnvs == [three : BOOLEAN, loaders : BOOLEAN]

Progresses ==
  [lengthComputable : {TRUE}, percent : {50, 100}]
    \cup [lengthComputable : {FALSE}, percent : {0}]

SetLoader(m) ==
  /\ loader' = m
  /\ UNCHANGED << prayerVars, stream, dataVars, connectVars, geom,
                  appState, handTracking, appEvent, tasks >>

LoadModels ==
  /\ loader = FreshLoader
  /\ \E useRealModels \in BOOLEAN : \E env \in LoaderEnvs :
       SetLoader(loadModels(loader, useRealModels, env))

MtlLoad == loader.pending = "mtl" /\ SetLoader(onMtlLoad(loader))

MtlProgress ==
  /\ loader.pending = "mtl"
  /\ \E progress \in Progresses : SetLoader(onMtlProgress(loader, progress))

MtlError == loader.pending = "mtl" /\ SetLoader(onMtlError(loader))

ObjLoad == loader.pending = "obj" /\ SetLoader(onObjLoad(loader))

ObjProgress ==
  /\ loader.pending = "obj"
  /\ \E progress \in Progresses : SetLoader(onObjProgress(loader, progress))

ObjError == loader.pending = "obj" /\ SetLoader(onObjError(loader))

PlainObjLoad == loader.pending = "objPlain" /\ SetLoader(onPlainObjLoad(loader))

PlainObjError == loader.pending = "objPlain" /\ SetLoader(onPlainObjError(loader))

NextModelTimer == loader.pending = "timer" /\ SetLoader(onNextModelTimer(loader))

\* a started load ends in one of its callbacks, and a due timer fires
LoadSettles ==
  \/ MtlLoad \/ MtlError \/ ObjLoad \/ ObjError
  \/ PlainObjLoad \/ PlainObjError \/ NextModelTimer

InitLoader ==
  /\ InitPrayerState
  /\ stream = NoStream
  /\ InitDataIdle
  /\ InitConnectIdle
  /\ InitShellIdle
  /\ geom = NoGeom

NextLoader ==
  \/ LoadModels
  \/ MtlLoad
  \/ MtlProgress
  \/ MtlError
  \/ ObjLoad
  \/ ObjProgress
  \/ ObjError
  \/ PlainObjLoad
  \/ PlainObjError
  \/ NextModelTimer

SpecLoader == InitLoader /\ [][NextLoader]_vars

SpecLoaderLive == SpecLoader /\ WF_vars(LoadSettles)

\* the models before the one being loaded have one scene object each, the
\* ones after it none, and the one being loaded gets its object when its
\* load ends
LoaderSequential ==
  loader.pending # "none" =>
    /\ loader.index < Len(modelNames)
    /\ loader.allComplete = 0
    /\ \A i \in DOMAIN modelNames :
         loader.objects[modelNames[i]] =
           IF i <= loader.index \/ (i = loader.index + 1 /\ loader.pending = "timer")
           THEN 1 ELSE 0

LoaderAllLoaded ==
  /\ loader.pending = "none"
  /\ loader.index = Len(modelNames)
  /\ loader.allComplete = 1
  /\ \A i \in DOMAIN modelNames :
       /\ loader.objects[modelNames[i]] = 1
       /\ loader.models[modelNames[i]] \in {"model", "plain", "placeholder"}

\* C40: the models are loaded one after another, and once the first load is
\* started, whatever the loaders report, loading ends with one scene object
\* for each model and one run of the all-complete callback.
C40_LoadingCompletes ==
  /\ [](LoaderSequential /\ loader.allComplete <= 1)
  /\ (loader.pending # "none") ~> [](LoaderAllLoaded)

C40_Witness ==
  /\ LoaderAllLoaded
  /\ loader.models["goddess"] = "placeholder"
  /\ loader.models["altar"] = "plain"
  /\ loader.models["roof"] = "model"


\* C33: after every handler of the shell the mode the shell shows is the
\* controller that is active: connect mode exactly when the connect
\* controller is active, pray mode exactly when the prayer controller is,
\* and never both.
C33_ShellAgreesWithControllers ==
  /\ (appState.mode = "connect") <=> connectState.isActive
  /\ (appState.mode = "pray") <=> prayerState.isActive
  /\ ~(connectState.isActive /\ prayerState.isActive)

\* the import timer fired in pray mode and went over to connect mode
C33_Witness ==
  /\ appEvent.op = "importTimer"
  /\ appEvent.mode = "pray"
  /\ appState.mode = "connect"
  /\ connectState.isActive
  /\ ~prayerState.isActive
  /\ connectSessions = 2


\* C36: the re-entry timer of handleFileImport changes nothing unless the
\* shell is in ready mode when it fires: it stops no pray mode and starts no
\* connect mode that is already active.
C36_ReentryOnlyWhenReady ==
  (appEvent.op = "importTimer" /\ appEvent.mode # "ready")
    => /\ ~appEvent.changed
       /\ ~(appEvent.wasActive /\ appEvent.started)


\* C38 as stated: a dispatched frame whose then-callback runs after its
\* mode was stopped changes nothing.
C38_LateFrameChangesNothing ==
  (appEvent.op = "deliver" /\ appEvent.stale) => ~appEvent.changed

\* C38: a dispatched frame whose then-callback runs while the controller of
\* its mode is not active changes nothing: stroke, dataset and prayer state
\* stay as the stop left them.
C38_FrameForStoppedModeChangesNothing ==
  (appEvent.op = "deliver" /\ ~appEvent.active) => ~appEvent.changed

C38_Witness ==
  /\ appEvent.op = "deliver"
  /\ appEvent.stale
  /\ ~appEvent.active
  /\ appEvent.mode = "connect"
  /\ appEvent.frame # NoHands
  /\ appEvent.modeNow = "pray"
  /\ tasks.inflight # << >>


\* C31: when the main loop runs and reads the state of the active mode,
\* every frame the hand tracker has reported has been processed by the
\* handler of its mode.
C31_FramesProcessedBeforeTick ==
  (appEvent.op = "tick" /\ appEvent.mode # "ready") => appEvent.pending = 0


\* C35: every circle a shell handler stores is stored under, and tagged
\* with, the user id the shell holds as the current user at that moment.
C35_StoredUnderShellUser ==
  appEvent.op # "none" =>
    \A c \in appEvent.stored :
      c.owner = appEvent.userId /\ c.userId = appEvent.userId

====
